---- MODULE Spec2Model ----
(***************************************************************************)
(* GroundMaster: ground-staff allocation for flight services.              *)
(*                                                                         *)
(* The model follows scheduler/core/scheduler.py (the solver driver), the  *)
(* constraint builders of scheduler/constraints/, the entity model of      *)
(* scheduler/models/ and the overlap detector.  A run is: construct the    *)
(* Scheduler (lookup maps, overlap map), create the decision variables,    *)
(* apply the constraint builders in the order of add_constraints, set the  *)
(* objective, and solve.  The CP-SAT back-end is modelled by what it       *)
(* guarantees: the values it reports satisfy every constraint of the       *)
(* model, and status OPTIMAL is reported only for a maximiser of the       *)
(* objective.                                                              *)
(*                                                                         *)
(* Times are minutes since midnight (the datetime values that              *)
(* Flight.__post_init__ and Staff.is_available_for_service obtain with     *)
(* strptime).  Service-time expressions are sequences of one-character     *)
(* strings.  Python lists whose order is irrelevant to the code that       *)
(* reads them (certifications, exclude_services) are sets.                 *)
(***************************************************************************)
EXTENDS Integers, Sequences, FiniteSets, TLC

VARIABLES
    services,                 \* Scheduler.services        (catalog, a sequence)
    flights,                  \* Scheduler.flights         (a sequence)
    roster,                   \* Scheduler.roster          (a sequence)
    bays,                     \* the bays argument         (a sequence)
    library,                  \* TRUE: the four category families come from scheduler/constraints/
    pc,                       \* position of the run
    overlapping_flights_map,  \* Scheduler.overlapping_flights_map
    assignments,              \* Scheduler.assignments: key -> decision variable
    constraints,              \* the constraints added to the CpModel
    indicators,               \* the extra BoolVars created by the builders
    objective,                \* the maximised linear expression: variable -> coefficient
    status,                   \* the status returned by solver.Solve
    values,                   \* solver.Value for every variable of the model
    allocation_plan,          \* the caller's AllocationPlan, if the caller made one
    calls_left,               \* the calls the caller may still make on the plan
    hints,                    \* Scheduler.hints
    hinted,                   \* the keys whose variable was given to CpModel.AddHint with value 1
    schedule,                 \* the Schedule returned by Scheduler.get_schedule
    plan_schedule,            \* the Schedule returned by AllocationPlan.get_schedule
    settings,                 \* the caller's Settings: the arguments, then the object
    applied                   \* the builders applied so far, when their order is left open

vars == <<services, flights, roster, bays, library, pc, overlapping_flights_map,
          assignments, constraints, indicators, objective, status, values,
          allocation_plan, calls_left, hints, hinted, schedule, plan_schedule, settings,
          applied>>

inputs == <<services, flights, roster, bays, library, settings>>

caller == <<allocation_plan, calls_left>>

reports == <<schedule, plan_schedule>>

----------------------------------------------------------------------------
(* Bounds of the explored inputs.                                          *)

MaxLimit == 2       \* cross_utilization_limit ranges over 0..MaxLimit
MaxCount == 2       \* FlightService.count ranges over 0..MaxCount
MaxSlack == 2       \* arrival offsets of the later flights: 0..MaxSlack steps of Step minutes
MaxCerts == 4       \* number of certifications held by the most skilled staff member

MaxSetting == 1     \* explored Settings arguments: -1..MaxSetting, and the defaults
MaxLen == 3         \* length of the explored time expressions: 0..MaxLen characters
MaxCalls == 2       \* calls made on the caller's AllocationPlan before the run

Step == 20          \* granularity of the explored arrival offsets, in minutes

(* Program constants.                                                      *)
overlap_tolerance_buffer == 15

(* the defaults of the fields of Settings *)
default_overlap_tolerance_buffer == 15

default_travel_time == 5

default_max_retries == 3

----------------------------------------------------------------------------
(* Generic helpers.                                                        *)

Range(seq) == {seq[i] : i \in DOMAIN seq}

RECURSIVE SumSeq(_)
SumSeq(seq) == IF seq = <<>> THEN 0 ELSE Head(seq) + SumSeq(Tail(seq))

Max2(a, b) == IF a >= b THEN a ELSE b

SetMax(S) == CHOOSE m \in S : \A n \in S : n <= m

SetMin(S) == CHOOSE m \in S : \A n \in S : m <= n

(* dict.get(key, default) on a function used as a dict *)
DictGet(d, k, default) == IF k \in DOMAIN d THEN d[k] ELSE default

----------------------------------------------------------------------------
(* Entity model.                                                           *)

F_LEVEL == "F"
C_LEVEL == "C"
M_FLIGHT == "M"
ALL == "All"
ANY == "Any"

Service(id, certs, req, type, limit, excl) ==
    [id |-> id, certifications |-> certs, certification_requirement |-> req,
     type |-> type, cross_utilization_limit |-> limit, exclude_services |-> excl]

FlightService(id, count, start, end) ==
    [id |-> id, count |-> count, start |-> start, end |-> end]

Flight(number, arrival, departure, bay, fss) ==
    [number |-> number, arrival_time |-> arrival, departure_time |-> departure,
     bay_number |-> bay, flight_services |-> fss]

Shift(start, end) == [start |-> start, end |-> end]

Staff(id, certs, shifts) == [id |-> id, certifications |-> certs, shifts |-> shifts]

Bay(number, travel) == [number |-> number, travel_time |-> travel]

----------------------------------------------------------------------------
(* Time model: Flight.get_service_time.                                    *)

Digits == {"0", "1", "2", "3", "4", "5", "6", "7", "8", "9"}

DigitVal(c) ==
    CASE c = "0" -> 0 [] c = "1" -> 1 [] c = "2" -> 2 [] c = "3" -> 3 [] c = "4" -> 4
      [] c = "5" -> 5 [] c = "6" -> 6 [] c = "7" -> 7 [] c = "8" -> 8 [] c = "9" -> 9

RECURSIVE DecVal(_)
DecVal(ds) == IF ds = <<>> THEN 0 ELSE 10 * DecVal(SubSeq(ds, 1, Len(ds) - 1)) + DigitVal(ds[Len(ds)])

AllDigits(ds) == ds # <<>> /\ \A i \in DOMAIN ds : ds[i] \in Digits

(* Python int(text): an optional sign followed by decimal digits; anything *)
(* else raises ValueError (ok = FALSE).                                    *)
PyInt(cs) ==
    IF cs # <<>> /\ cs[1] \in {"+", "-"}
    THEN IF AllDigits(Tail(cs))
         THEN [ok |-> TRUE, v |-> IF cs[1] = "-" THEN 0 - DecVal(Tail(cs)) ELSE DecVal(Tail(cs))]
         ELSE [ok |-> FALSE, v |-> 0]
    ELSE IF AllDigits(cs) THEN [ok |-> TRUE, v |-> DecVal(cs)] ELSE [ok |-> FALSE, v |-> 0]

Contains(cs, c) == \E i \in DOMAIN cs : cs[i] = c

(* time_str[2:] *)
From2(cs) == IF Len(cs) <= 2 THEN <<>> ELSE SubSeq(cs, 3, Len(cs))

(* a resolve_time that adds the minutes whatever the sign *)
resolve_time_unsigned(flight, time_str) ==
    LET startsA == time_str # <<>> /\ time_str[1] = "A"
        startsD == time_str # <<>> /\ time_str[1] = "D"
        base_time == IF startsA THEN flight.arrival_time ELSE flight.departure_time
        k == PyInt(From2(time_str))
    IN  IF ~(startsA \/ startsD) THEN [ok |-> FALSE, t |-> 0]
        ELSE IF Contains(time_str, "+") \/ Contains(time_str, "-")
             THEN IF k.ok THEN [ok |-> TRUE, t |-> base_time + k.v] ELSE [ok |-> FALSE, t |-> 0]
        ELSE [ok |-> TRUE, t |-> base_time]

(* resolve_time of get_service_time; ok = FALSE stands for the ValueError. *)
resolve_time(flight, time_str) ==
    LET startsA == time_str # <<>> /\ time_str[1] = "A"
        startsD == time_str # <<>> /\ time_str[1] = "D"
        base_time == IF startsA THEN flight.arrival_time ELSE flight.departure_time
        k == PyInt(From2(time_str))
    IN  IF ~(startsA \/ startsD) THEN [ok |-> FALSE, t |-> 0]
        ELSE IF Contains(time_str, "+")
             THEN IF k.ok THEN [ok |-> TRUE, t |-> base_time + k.v] ELSE [ok |-> FALSE, t |-> 0]
        ELSE IF Contains(time_str, "-")
             THEN IF k.ok THEN [ok |-> TRUE, t |-> base_time - k.v] ELSE [ok |-> FALSE, t |-> 0]
        ELSE [ok |-> TRUE, t |-> base_time]

get_service_time(flight, service_start, service_end) ==
    <<resolve_time(flight, service_start).t, resolve_time(flight, service_end).t>>

(* get_service_time leaves with the ValueError of one of its two calls *)
get_service_time_raises(flight, service_start, service_end) ==
    ~resolve_time(flight, service_start).ok \/ ~resolve_time(flight, service_end).ok

----------------------------------------------------------------------------
(* Settings.                                                               *)

(* the arguments of Settings(...), and the object once __post_init__ has   *)
(* returned                                                                *)
SettingsArgs(buffer, travel, retries) ==
    [state |-> "args", overlap_tolerance_buffer |-> buffer, default_travel_time |-> travel,
     max_retries |-> retries]

Built(args) == [args EXCEPT !.state = "built"]

(* a __post_init__ that accepts a default travel time of 0 *)
Settings_post_init_raises_below_zero(args) ==
    args.overlap_tolerance_buffer < 0 \/ args.default_travel_time < 0

(* Settings.__post_init__ raises ValueError *)
Settings_post_init_raises(args) ==
    args.overlap_tolerance_buffer < 0 \/ args.default_travel_time <= 0

(* Settings() *)
DefaultSettings ==
    Built(SettingsArgs(default_overlap_tolerance_buffer, default_travel_time, default_max_retries))

----------------------------------------------------------------------------
(* Eligibility predicates: Staff.                                          *)

(* is_available_for_service with the start and the end of the window       *)
(* allowed to fall in different shifts                                     *)
is_available_for_service_split(staff, service_start, service_end) ==
    /\ \E i \in DOMAIN staff.shifts : staff.shifts[i].start <= service_start
    /\ \E i \in DOMAIN staff.shifts : staff.shifts[i].end >= service_end

is_available_for_service(staff, service_start, service_end) ==
    \E i \in DOMAIN staff.shifts :
        staff.shifts[i].start <= service_start /\ staff.shifts[i].end >= service_end

(* can_perform_service with one held certification accepted under ALL *)
can_perform_service_any(staff, service) ==
    \E cert \in service.certifications : cert \in staff.certifications

(* can_perform_service with ANY met by an empty list of certifications *)
can_perform_service_vacuous_any(staff, service) ==
    IF service.certification_requirement = ALL
    THEN \A cert \in service.certifications : cert \in staff.certifications
    ELSE IF service.certification_requirement = ANY
    THEN service.certifications = {} \/ \E cert \in service.certifications : cert \in staff.certifications
    ELSE FALSE

can_perform_service(staff, service) ==
    IF service.certification_requirement = ALL
    THEN \A cert \in service.certifications : cert \in staff.certifications
    ELSE IF service.certification_requirement = ANY
    THEN \E cert \in service.certifications : cert \in staff.certifications
    ELSE FALSE

----------------------------------------------------------------------------
(* Lookup maps of Scheduler.__init__.                                      *)

(* service_map[id]: a dict comprehension, the last entry of an id wins *)
service_map(id) ==
    services[SetMax({i \in DOMAIN services : services[i].id = id})]

flight_map(number) ==
    flights[SetMax({i \in DOMAIN flights : flights[i].number = number})]

BayNumbers == {bays[i].number : i \in DOMAIN bays}

bay_of(number) == bays[SetMax({i \in DOMAIN bays : bays[i].number = number})]

(* travel_time_map.get((a, b), 0), where the map holds                     *)
(* bays[a].travel_time.get(b, 0) for every pair of known bays              *)
travel_time_map(a, b) ==
    IF a \in BayNumbers /\ b \in BayNumbers
    THEN DictGet(bay_of(a).travel_time, b, 0)
    ELSE 0

(* sorted(flights, key=arrival_time): stable *)
RECURSIVE InsertByArrival(_, _)
InsertByArrival(sorted, f) ==
    IF sorted = <<>> THEN <<f>>
    ELSE IF sorted[Len(sorted)].arrival_time <= f.arrival_time THEN Append(sorted, f)
    ELSE Append(InsertByArrival(SubSeq(sorted, 1, Len(sorted) - 1), f), sorted[Len(sorted)])

RECURSIVE SortByArrival(_)
SortByArrival(fs) ==
    IF fs = <<>> THEN <<>>
    ELSE InsertByArrival(SortByArrival(SubSeq(fs, 1, Len(fs) - 1)), fs[Len(fs)])

sorted_flights == SortByArrival(flights)

NonMultiFlight(flight) ==
    SelectSeq(flight.flight_services, LAMBDA fs : service_map(fs.id).type # M_FLIGHT)

----------------------------------------------------------------------------
(* Overlap detection: Scheduler.get_overlapping_flights_map.               *)

a_services_end(flight_a) ==
    LET a_services == NonMultiFlight(flight_a)
    IN  IF a_services # <<>>
        THEN SetMax({get_service_time(flight_a, a_services[k].start, a_services[k].end)[2] :
                        k \in DOMAIN a_services})
        ELSE flight_a.departure_time

b_services_start(flight_b) ==
    LET b_services == NonMultiFlight(flight_b)
    IN  IF b_services # <<>>
        THEN SetMin({get_service_time(flight_b, b_services[k].start, b_services[k].end)[1] :
                        k \in DOMAIN b_services})
        ELSE flight_b.arrival_time

required_gap(flight_a, flight_b) ==
    Max2(travel_time_map(flight_a.bay_number, flight_b.bay_number) - overlap_tolerance_buffer, 0)

(* the test of the inner loop *)
overlap_detected(flight_a, flight_b) ==
    a_services_end(flight_a) + required_gap(flight_a, flight_b) > b_services_start(flight_b)

(* the inner loop over j = i+1 .. with its early break *)
RECURSIVE inner_sweep(_, _, _)
inner_sweep(sorted, i, j) ==
    IF j > Len(sorted) THEN <<>>
    ELSE IF overlap_detected(sorted[i], sorted[j])
         THEN <<sorted[j].number>> \o inner_sweep(sorted, i, j + 1)
         ELSE <<>>

(* a defaultdict(list): a key exists only once something was appended *)
get_overlapping_flights_map ==
    LET sorted == sorted_flights
        hit == {i \in DOMAIN sorted : inner_sweep(sorted, i, i + 1) # <<>>}
    IN  [n \in {sorted[i].number : i \in hit} |->
            inner_sweep(sorted, CHOOSE i \in hit : sorted[i].number = n,
                        (CHOOSE i \in hit : sorted[i].number = n) + 1)]

----------------------------------------------------------------------------
(* Overlap detection: OverlapDetectionService.                             *)

_get_latest_service_end(flight) ==
    LET svcs == NonMultiFlight(flight)
    IN  IF svcs # <<>>
        THEN SetMax({get_service_time(flight, svcs[k].start, svcs[k].end)[2] : k \in DOMAIN svcs})
        ELSE flight.departure_time

(* _get_earliest_service_start that answers the arrival of the flight *)
_get_earliest_service_start_arrival(flight) == flight.arrival_time

_get_earliest_service_start(flight) ==
    LET svcs == NonMultiFlight(flight)
    IN  IF svcs # <<>>
        THEN SetMin({get_service_time(flight, svcs[k].start, svcs[k].end)[1] : k \in DOMAIN svcs})
        ELSE flight.arrival_time

_has_temporal_conflict(flight_a, flight_b, a_end, b_start) ==
    LET travel_time == travel_time_map(flight_a.bay_number, flight_b.bay_number)
        gap == Max2(travel_time - overlap_tolerance_buffer, 0)
    IN  a_end + gap > b_start

RECURSIVE detect_inner(_, _, _)
detect_inner(sorted, i, j) ==
    IF j > Len(sorted) THEN <<>>
    ELSE IF _has_temporal_conflict(sorted[i], sorted[j], _get_latest_service_end(sorted[i]),
                                   _get_earliest_service_start(sorted[j]))
         THEN <<sorted[j].number>> \o detect_inner(sorted, i, j + 1)
         ELSE <<>>

(* detect_overlaps with the inner loop started at the first flight rather  *)
(* than at the flight after flight_a                                       *)
detect_overlaps_from_first ==
    LET sorted == sorted_flights
        hit == {i \in DOMAIN sorted : detect_inner(sorted, i, 1) # <<>>}
    IN  [n \in {sorted[i].number : i \in hit} |->
            detect_inner(sorted, CHOOSE i \in hit : sorted[i].number = n, 1)]

detect_overlaps ==
    LET sorted == sorted_flights
        hit == {i \in DOMAIN sorted : detect_inner(sorted, i, i + 1) # <<>>}
    IN  [n \in {sorted[i].number : i \in hit} |->
            detect_inner(sorted, CHOOSE i \in hit : sorted[i].number = n,
                         (CHOOSE i \in hit : sorted[i].number = n) + 1)]

----------------------------------------------------------------------------
(* The CpModel: Boolean variables and linear constraints.                  *)

(* a variable of the model; decision variables have kind "assigned" *)
BoolVar(kind, f, s, st) == [kind |-> kind, f |-> f, s |-> s, st |-> st]

Key(flight, fs, staff) == <<flight.number, fs.id, staff.id>>

(* model.Add(sum(vs) op rhs), optionally .OnlyEnforceIf(lit) *)
Add(op, vs, rhs) == [op |-> op, vars |-> vs, rhs |-> rhs, enforce |-> <<>>]

AddIf(op, vs, rhs, v, positive) ==
    [op |-> op, vars |-> vs, rhs |-> rhs, enforce |-> <<[v |-> v, positive |-> positive]>>]

(* [assignments[(flight.number, fs.id, staff.id)] for fs in sel] *)
VarsOn(flight, staff, sel) ==
    [k \in 1..Len(sel) |-> assignments[Key(flight, sel[k], staff)]]

(* next(x for x in seq if x.id == id): the first match *)
first_by_id(seq, id) == seq[SetMin({i \in DOMAIN seq : seq[i].id = id})]

first_flight(number) == flights[SetMin({i \in DOMAIN flights : flights[i].number = number})]

Window(flight, fs) == get_service_time(flight, fs.start, fs.end)

----------------------------------------------------------------------------
(* AllocationPlan (scheduler/plans/allocation_plan.py).                    *)
(* AllocationPlan.allocations is a dict of dicts of dicts:                 *)
(* flight number -> service id -> staff id -> bool.  A dict is a function; *)
(* the keys of the two inner levels carry their Python type, because       *)
(* json.dumps turns an int key into a str key and deserialize has to turn  *)
(* it back: the int 12 is [type |-> "int", text |-> <<"1", "2">>] and the  *)
(* str "12" is [type |-> "str", text |-> <<"1", "2">>].                    *)

EmptyDict == [k \in {} |-> FALSE]

DictSet(d, k, v) == [x \in DOMAIN d \cup {k} |-> IF x = k THEN v ELSE d[x]]

DictDel(d, k) == [x \in DOMAIN d \ {k} |-> d[x]]

DigitChar(d) == CHOOSE c \in Digits : DigitVal(c) = d

(* str(n) for an int n *)
RECURSIVE ToDigits(_)
ToDigits(n) ==
    IF n < 0 THEN <<"-">> \o ToDigits(0 - n)
    ELSE IF n < 10 THEN <<DigitChar(n)>>
    ELSE ToDigits(n \div 10) \o <<DigitChar(n % 10)>>

IntKey(n) == [type |-> "int", text |-> ToDigits(n)]

StrKey(text) == [type |-> "str", text |-> text]

(* AllocationPlan.add_allocation *)
add_allocation(allocations, flight_number, service_id, staff_id, value) ==
    LET a1 == IF flight_number \in DOMAIN allocations THEN allocations
              ELSE DictSet(allocations, flight_number, EmptyDict)
        a2 == IF service_id \in DOMAIN a1[flight_number] THEN a1
              ELSE DictSet(a1, flight_number, DictSet(a1[flight_number], service_id, EmptyDict))
    IN  DictSet(a2, flight_number,
                DictSet(a2[flight_number], service_id,
                        DictSet(a2[flight_number][service_id], staff_id, value)))

(* json.dumps: the key of a JSON object is a string; an int key is written *)
(* as its decimal text.  Two keys that are written alike (the int 12 and   *)
(* the str "12") give one member.                                          *)
json_key(k) == StrKey(k.text)

json_object(d) ==
    [j \in {json_key(k) : k \in DOMAIN d} |-> d[CHOOSE k \in DOMAIN d : json_key(k) = j]]

(* AllocationPlan.serialize: json.dumps(self.allocations), as the tree     *)
(* that json.loads reads back                                              *)
serialize(allocations) ==
    [f \in DOMAIN allocations |->
        LET by_service == allocations[f]
        IN  [j \in {json_key(k) : k \in DOMAIN by_service} |->
                json_object(by_service[CHOOSE k \in DOMAIN by_service : json_key(k) = j])]]

(* int(service_id), int(staff_id) on a key read from the JSON text *)
int_key(j) == IntKey(PyInt(j.text).v)

int_keyed(d) ==
    [k \in {int_key(j) : j \in DOMAIN d} |-> d[CHOOSE j \in DOMAIN d : int_key(j) = k]]

(* a deserialize that keeps the keys as json.loads returns them *)
deserialize_str_keys(allocations, data) ==
    [f \in DOMAIN allocations \cup DOMAIN data |->
        IF f \in DOMAIN data THEN data[f] ELSE allocations[f]]

(* a deserialize that drops what the plan held before *)
deserialize_replacing(allocations, data) ==
    [f \in DOMAIN data |->
        LET by_service == data[f]
        IN  [k \in {int_key(j) : j \in DOMAIN by_service} |->
                int_keyed(by_service[CHOOSE j \in DOMAIN by_service : int_key(j) = k])]]

(* AllocationPlan.deserialize: every flight of the text replaces the       *)
(* flight's entries; a flight the text does not name keeps its entries     *)
deserialize(allocations, data) ==
    [f \in DOMAIN allocations \cup DOMAIN data |->
        IF f \in DOMAIN data
        THEN LET by_service == data[f]
             IN  [k \in {int_key(j) : j \in DOMAIN by_service} |->
                     int_keyed(by_service[CHOOSE j \in DOMAIN by_service : int_key(j) = k])]
        ELSE allocations[f]]

(* AllocationPlan.remove_flight *)
remove_flight(allocations, flight_number) ==
    IF flight_number \in DOMAIN allocations THEN DictDel(allocations, flight_number)
    ELSE allocations

(* AllocationPlan.remove_service *)
remove_service(allocations, service_id) ==
    [f \in DOMAIN allocations |->
        IF service_id \in DOMAIN allocations[f] THEN DictDel(allocations[f], service_id)
        ELSE allocations[f]]

(* a remove_staff that deletes every service the staff member has an entry in *)
remove_staff_with_service(allocations, staff_id) ==
    [f \in DOMAIN allocations |->
        [s \in {x \in DOMAIN allocations[f] : staff_id \notin DOMAIN allocations[f][x]} |->
            allocations[f][s]]]

(* AllocationPlan.remove_staff *)
remove_staff(allocations, staff_id) ==
    [f \in DOMAIN allocations |->
        [s \in DOMAIN allocations[f] |->
            IF staff_id \in DOMAIN allocations[f][s] THEN DictDel(allocations[f][s], staff_id)
            ELSE allocations[f][s]]]

(* AllocationPlan.get_allocation *)
get_allocation(allocations, flight_number, service_id, staff_id) ==
    DictGet(DictGet(DictGet(allocations, flight_number, EmptyDict), service_id, EmptyDict),
            staff_id, FALSE)

(* the plan left by a sequence of add_allocation calls on a new plan *)
RECURSIVE PlanOf(_)
PlanOf(calls) ==
    IF calls = <<>> THEN EmptyDict
    ELSE LET c == calls[Len(calls)]
         IN  add_allocation(PlanOf(SubSeq(calls, 1, Len(calls) - 1)),
                            c[1], IntKey(c[2]), IntKey(c[3]), c[4])

----------------------------------------------------------------------------
(* Scheduler.create_variables                                              *)

(* self.assignments after the three nested loops *)
create_variables_map ==
    LET keys == UNION {{Key(flights[i], flights[i].flight_services[k], roster[r]) :
                          k \in DOMAIN flights[i].flight_services, r \in DOMAIN roster} :
                       i \in DOMAIN flights}
    IN  [key \in keys |-> BoolVar("assigned", key[1], key[2], key[3])]

(* a CpModel whose AddHint fixes the variable to the hinted value *)
AddHint_fixing(cons, var, value) == cons \cup {Add("eq", <<var>>, value)}

(* CpModel.AddHint(var, value): a hint is a suggested starting value for   *)
(* the search; the constraints of the model are what they were             *)
AddHint(cons, var, value) == cons

(* a create_variables that hints every key the plan has an entry for *)
create_variables_hints_any_entry(asg) ==
    IF hints.made
    THEN {key \in DOMAIN asg :
            /\ key[1] \in DOMAIN hints.allocations
            /\ IntKey(key[2]) \in DOMAIN hints.allocations[key[1]]
            /\ IntKey(key[3]) \in DOMAIN hints.allocations[key[1]][IntKey(key[2])]}
    ELSE {}

(* create_variables: the keys whose plan entry is truthy *)
create_variables_hints(asg) ==
    IF hints.made
    THEN {key \in DOMAIN asg :
            get_allocation(hints.allocations, key[1], IntKey(key[2]), IntKey(key[3]))}
    ELSE {}

(* create_variables: the constraints of the model after the AddHint calls *)
RECURSIVE create_variables_model(_, _, _)
create_variables_model(cons, asg, keys) ==
    IF keys = {} THEN cons
    ELSE LET key == CHOOSE k \in keys : TRUE
         IN  create_variables_model(AddHint(cons, asg[key], 1), asg, keys \ {key})

----------------------------------------------------------------------------
(* AvailabilityConstraint.apply                                            *)

(* an AvailabilityConstraint that adds nothing *)
AvailabilityConstraint_apply_nothing == {}

AvailabilityConstraint_apply ==
    {Add("eq", <<assignments[key]>>, 0) :
        key \in {k \in DOMAIN assignments :
                    LET flight == first_flight(k[1])
                        flight_service == first_by_id(flight.flight_services, k[2])
                        staff == first_by_id(roster, k[3])
                        w == Window(flight, flight_service)
                    IN  ~is_available_for_service(staff, w[1], w[2])}}

(* CertificationConstraint.apply                                           *)

CertificationConstraint_apply ==
    {Add("eq", <<assignments[key]>>, 0) :
        key \in {k \in DOMAIN assignments :
                    ~can_perform_service(first_by_id(roster, k[3]), first_by_id(services, k[2]))}}

(* StaffCountConstraint.apply                                              *)

(* StaffCountConstraint.apply with one more staff member allowed *)
StaffCountConstraint_apply_plus_one ==
    UNION {{Add("le",
                [r \in 1..Len(roster) |->
                    assignments[Key(flights[i], flights[i].flight_services[k], roster[r])]],
                flights[i].flight_services[k].count + 1) :
              k \in DOMAIN flights[i].flight_services} :
           i \in DOMAIN flights}

(* StaffCountConstraint.apply requiring exactly count staff members *)
StaffCountConstraint_apply_exactly ==
    UNION {{Add("eq",
                [r \in 1..Len(roster) |->
                    assignments[Key(flights[i], flights[i].flight_services[k], roster[r])]],
                flights[i].flight_services[k].count) :
              k \in DOMAIN flights[i].flight_services} :
           i \in DOMAIN flights}

StaffCountConstraint_apply ==
    UNION {{Add("le",
                [r \in 1..Len(roster) |->
                    assignments[Key(flights[i], flights[i].flight_services[k], roster[r])]],
                flights[i].flight_services[k].count) :
              k \in DOMAIN flights[i].flight_services} :
           i \in DOMAIN flights}

----------------------------------------------------------------------------
(* Flight-level family.                                                    *)

flight_level_services(flight) ==
    SelectSeq(flight.flight_services, LAMBDA fs : service_map(fs.id).type = F_LEVEL)

(* The services counted with `cur' by the cross-utilization constraint.    *)
other_services(fls, cur) ==
    SelectSeq(fls, LAMBDA other :
        /\ other.id # cur.id
        /\ cur.id \notin service_map(other.id).exclude_services
        /\ other.id \notin service_map(cur.id).exclude_services)

(* The services for which the cross-utilization constraint is built: the   *)
(* loop over flight_level_services holds two assignments only, and the     *)
(* statements that build the constraint follow the loop, so they run once, *)
(* with the loop variable left at the last service.                        *)
cross_utilization_subjects(fls) ==
    IF fls = <<>> THEN {} ELSE {fls[Len(fls)]}

cross_utilization_limit_constraints(flight, staff, fls) ==
    {Add("le",
         <<assignments[Key(flight, cur, staff)]>> \o
             [k \in 1..Len(other_services(fls, cur)) |->
                 assignments[Key(flight, other_services(fls, cur)[k], staff)]],
         service_map(cur.id).cross_utilization_limit) :
        cur \in {c \in cross_utilization_subjects(fls) : other_services(fls, c) # <<>>}}

(* Scheduler.add_flight_level_service_constraints: service_b declares *)
add_flight_level_exclusions(flight, staff, fls) ==
    {Add("le", <<assignments[Key(flight, fls[a], staff)],
                 assignments[Key(flight, fls[b], staff)]>>, 1) :
        <<b, a>> \in {p \in (DOMAIN fls) \X (DOMAIN fls) :
                        fls[p[2]].id \in service_map(fls[p[1]].id).exclude_services}}

add_flight_level_service_constraints ==
    UNION {add_flight_level_exclusions(flights[i], roster[r], flight_level_services(flights[i]))
             \cup cross_utilization_limit_constraints(flights[i], roster[r],
                                                      flight_level_services(flights[i])) :
           i \in DOMAIN flights, r \in DOMAIN roster}

(* _apply_exclude_services_constraint honoured only when the service       *)
(* listed first declares the exclusion                                     *)
_apply_exclude_services_constraint_first(flight, staff, fls) ==
    {Add("le", <<assignments[Key(flight, fls[a], staff)],
                 assignments[Key(flight, fls[b], staff)]>>, 1) :
        <<a, b>> \in {p \in (DOMAIN fls) \X (DOMAIN fls) :
                        /\ p[1] < p[2]
                        /\ fls[p[2]].id \in service_map(fls[p[1]].id).exclude_services}}

(* FlightLevelServiceConstraint: service_a declares *)
_apply_exclude_services_constraint(flight, staff, fls) ==
    {Add("le", <<assignments[Key(flight, fls[a], staff)],
                 assignments[Key(flight, fls[b], staff)]>>, 1) :
        <<a, b>> \in {p \in (DOMAIN fls) \X (DOMAIN fls) :
                        fls[p[2]].id \in service_map(fls[p[1]].id).exclude_services}}

_apply_cross_utilization_limit_constraint(flight, staff, fls) ==
    cross_utilization_limit_constraints(flight, staff, fls)

FlightLevelServiceConstraint_apply ==
    UNION {_apply_exclude_services_constraint(flights[i], roster[r],
                                              flight_level_services(flights[i]))
             \cup _apply_cross_utilization_limit_constraint(flights[i], roster[r],
                                                            flight_level_services(flights[i])) :
           i \in DOMAIN flights, r \in DOMAIN roster}

----------------------------------------------------------------------------
(* Common-level family.                                                    *)

common_vars(flight, staff) ==
    VarsOn(flight, staff,
           SelectSeq(flight.flight_services, LAMBDA fs : service_map(fs.id).type = C_LEVEL))

other_vars(flight, staff) ==
    VarsOn(flight, staff,
           SelectSeq(flight.flight_services, LAMBDA fs : service_map(fs.id).type # C_LEVEL))

(* Scheduler.add_common_level_service_constraints: pairwise form *)
add_common_level_service_constraints ==
    UNION {{Add("le", common_vars(flights[i], roster[r]), 1)}
             \cup {Add("le", <<c, o>>, 1) :
                      c \in Range(common_vars(flights[i], roster[r])),
                      o \in Range(other_vars(flights[i], roster[r]))} :
           i \in DOMAIN flights, r \in DOMAIN roster}

(* CommonLevelServiceConstraint.apply: indicator form *)
has_common(flight, staff) == BoolVar("common", flight.number, 0, staff.id)

CommonLevelServiceConstraint_pairs ==
    {p \in (DOMAIN flights) \X (DOMAIN roster) : common_vars(flights[p[1]], roster[p[2]]) # <<>>}

CommonLevelServiceConstraint_indicators ==
    {has_common(flights[p[1]], roster[p[2]]) :
        p \in {q \in CommonLevelServiceConstraint_pairs :
                  other_vars(flights[q[1]], roster[q[2]]) # <<>>}}

CommonLevelServiceConstraint_apply ==
    UNION {LET flight == flights[p[1]]
               staff == roster[p[2]]
           IN  {Add("le", common_vars(flight, staff), 1)}
                 \cup (IF other_vars(flight, staff) = <<>> THEN {}
                       ELSE {AddIf("eq", common_vars(flight, staff), 1, has_common(flight, staff), TRUE),
                             AddIf("eq", common_vars(flight, staff), 0, has_common(flight, staff), FALSE),
                             AddIf("eq", other_vars(flight, staff), 0, has_common(flight, staff), TRUE)}) :
           p \in CommonLevelServiceConstraint_pairs}

----------------------------------------------------------------------------
(* Multi-flight family (the driver method and the builder class hold the   *)
(* same statements).                                                       *)

multiflight_vars(flight, staff) ==
    VarsOn(flight, staff,
           SelectSeq(flight.flight_services, LAMBDA fs : service_map(fs.id).type = M_FLIGHT))

non_multiflight_vars(flight, staff) ==
    VarsOn(flight, staff,
           SelectSeq(flight.flight_services, LAMBDA fs : service_map(fs.id).type # M_FLIGHT))

(* Step 1 without Rule 2 *)
multiflight_same_flight_rule_1 ==
    UNION {{Add("le", multiflight_vars(flights[i], roster[r]), 1)} :
           i \in DOMAIN flights, r \in DOMAIN roster}

(* Step 1: within one flight *)
multiflight_same_flight ==
    UNION {{Add("le", multiflight_vars(flights[i], roster[r]), 1)}
             \cup {Add("le", <<m, o>>, 1) :
                      m \in Range(multiflight_vars(flights[i], roster[r])),
                      o \in Range(non_multiflight_vars(flights[i], roster[r]))} :
           i \in DOMAIN flights, r \in DOMAIN roster}

(* Step 2: staff_multiflight_assignments[staff.id][service_id], flights 1..n *)
RECURSIVE staff_multiflight_assignments(_, _, _)
staff_multiflight_assignments(staff, service_id, n) ==
    IF n = 0 THEN <<>>
    ELSE staff_multiflight_assignments(staff, service_id, n - 1) \o
         VarsOn(flights[n], staff,
                SelectSeq(flights[n].flight_services,
                          LAMBDA fs : fs.id = service_id /\ service_map(fs.id).type = M_FLIGHT))

(* the keys of staff_multiflight_assignments[staff.id] *)
multiflight_service_ids ==
    UNION {{fs.id : fs \in Range(SelectSeq(flights[i].flight_services,
                                           LAMBDA x : service_map(x.id).type = M_FLIGHT))} :
           i \in DOMAIN flights}

service_var(staff, service_id) == BoolVar("multiflight", "", service_id, staff.id)

multiflight_indicators ==
    {service_var(roster[r], m) : r \in DOMAIN roster, m \in multiflight_service_ids}

(* Step 3 without the constraints enforced by service_var.Not() *)
multiflight_cross_flight_unlinked ==
    UNION {LET staff == roster[r]
               ids == multiflight_service_ids
               order == CHOOSE sq \in [1..Cardinality(ids) -> ids] : Range(sq) = ids
           IN  {Add("le", [k \in 1..Cardinality(ids) |-> service_var(staff, order[k])], 1)}
                 \cup {AddIf("ge", staff_multiflight_assignments(staff, m, Len(flights)), 1,
                             service_var(staff, m), TRUE) : m \in ids} :
           r \in DOMAIN roster}

(* Step 3: across flights *)
multiflight_cross_flight ==
    UNION {LET staff == roster[r]
               ids == multiflight_service_ids
               order == CHOOSE sq \in [1..Cardinality(ids) -> ids] : Range(sq) = ids
           IN  {Add("le", [k \in 1..Cardinality(ids) |-> service_var(staff, order[k])], 1)}
                 \cup {AddIf("ge", staff_multiflight_assignments(staff, m, Len(flights)), 1,
                             service_var(staff, m), TRUE) : m \in ids}
                 \cup {AddIf("eq", staff_multiflight_assignments(staff, m, Len(flights)), 0,
                             service_var(staff, m), FALSE) : m \in ids} :
           r \in DOMAIN roster}

add_multiflight_service_constraints == multiflight_same_flight \cup multiflight_cross_flight

MultiFlightServiceConstraint_apply == multiflight_same_flight \cup multiflight_cross_flight

----------------------------------------------------------------------------
(* Flight-transition family (the driver method and the builder class hold  *)
(* the same statements).                                                   *)

eligible(staff, flight, fs) ==
    /\ is_available_for_service(staff, Window(flight, fs)[1], Window(flight, fs)[2])
    /\ can_perform_service(staff, service_map(fs.id))

(* transition_conflict with the travel time left out of the comparison *)
transition_conflict_no_travel(flight_a, service_a, flight_b, service_b, buffer) ==
    Window(flight_a, service_a)[2] > Window(flight_b, service_b)[1] + buffer

(* the test that guards model.Add(var_a + var_b <= 1) *)
transition_conflict(flight_a, service_a, flight_b, service_b, buffer) ==
    Window(flight_a, service_a)[2] + travel_time_map(flight_a.bay_number, flight_b.bay_number)
        > Window(flight_b, service_b)[1] + buffer

transition_pairs(staff, flight_a, flight_b, buffer) ==
    {Add("le", <<assignments[Key(flight_a, service_a, staff)],
                 assignments[Key(flight_b, service_b, staff)]>>, 1) :
        <<service_a, service_b>> \in
            {p \in Range(NonMultiFlight(flight_a)) \X Range(NonMultiFlight(flight_b)) :
                /\ eligible(staff, flight_a, p[1])
                /\ eligible(staff, flight_b, p[2])
                /\ transition_conflict(flight_a, p[1], flight_b, p[2], buffer)}}

flight_transition_constraints(buffer) ==
    UNION {UNION {transition_pairs(roster[r], flights[i], flight_map(flight_b_num), buffer) :
                    flight_b_num \in Range(DictGet(overlapping_flights_map, flights[i].number, <<>>))} :
           r \in DOMAIN roster, i \in DOMAIN flights}

(* a transition builder that reads the model it adds to: it emits nothing  *)
(* once the model holds indicator variables                                *)
add_flight_transition_constraints_reading_model(buffer) ==
    IF indicators # {} THEN {} ELSE flight_transition_constraints(buffer)

add_flight_transition_constraints(buffer) == flight_transition_constraints(buffer)

FlightTransitionConstraint_apply == flight_transition_constraints(overlap_tolerance_buffer)

----------------------------------------------------------------------------
(* Scheduler.set_objective.  The coefficient of a decision variable is     *)
(* 1 + 1/max(len(certifications), 1); all coefficients are multiplied by   *)
(* the product of the denominators, which keeps them integral and leaves   *)
(* the order of the objective values as it is.                             *)

cert_count(staff) == Max2(Cardinality(staff.certifications), 1)

RECURSIVE objective_scale(_)
objective_scale(n) == IF n = 0 THEN 1 ELSE objective_scale(n - 1) * cert_count(roster[n])

(* weight with the preference term left out: every staff member counts 2 *)
weight_uniform(staff_id) == 2 * objective_scale(Len(roster))

weight(staff_id) ==
    LET scale == objective_scale(Len(roster))
        matching == {r \in DOMAIN roster : roster[r].id = staff_id}
        RECURSIVE weighted(_)
        weighted(R) == IF R = {} THEN 0
                       ELSE LET r == CHOOSE x \in R : TRUE
                            IN  scale \div cert_count(roster[r]) + weighted(R \ {r})
    IN  weighted(matching) + scale

set_objective == [key \in DOMAIN assignments |-> weight(key[3])]

----------------------------------------------------------------------------
(* The CP-SAT back-end.                                                    *)

ModelVars == Range(assignments) \cup indicators

NoValues == [v \in {} |-> 0]

Enforced(c, val) ==
    \A k \in DOMAIN c.enforce : val[c.enforce[k].v] = (IF c.enforce[k].positive THEN 1 ELSE 0)

Holds(c, val) ==
    LET total == SumSeq([k \in DOMAIN c.vars |-> val[c.vars[k]]])
    IN  Enforced(c, val) =>
            CASE c.op = "le" -> total <= c.rhs
              [] c.op = "ge" -> total >= c.rhs
              [] c.op = "eq" -> total = c.rhs

SatisfiesAll(cons, val) == \A c \in cons : Holds(c, val)

Satisfies(val) == SatisfiesAll(constraints, val)

Mentions(c) == Range(c.vars) \cup {c.enforce[k].v : k \in DOMAIN c.enforce}

(* The assignments of all variables of the model that satisfy every        *)
(* constraint, found by extending partial assignments one variable at a    *)
(* time: a partial assignment is dropped as soon as a constraint whose     *)
(* variables are all assigned is violated, and every constraint is checked *)
(* once more on the complete assignments.                                  *)
RECURSIVE ExtendIn(_, _, _, _)
ExtendIn(cons, partial, done, rest) ==
    IF rest = {} THEN partial
    ELSE LET v == CHOOSE i \in rest : TRUE
             decided == {c \in cons : v \in Mentions(c) /\ Mentions(c) \subseteq done \cup {v}}
             grown == {p @@ (v :> b) : p \in partial, b \in {0, 1}}
         IN  ExtendIn(cons, {g \in grown : \A c \in decided : Holds(c, g)}, done \cup {v}, rest \ {v})

Extend(partial, done, rest) == ExtendIn(constraints, partial, done, rest)

(* the solutions of a set of constraints over the variables of the model *)
SolutionsOf(cons) ==
    LET decision == Range(assignments)
        xs == ExtendIn(cons, {NoValues}, {}, decision)
    IN  {p \in ExtendIn(cons, xs, decision, ModelVars \ decision) : SatisfiesAll(cons, p)}

Solutions == SolutionsOf(constraints)

(* the sum of the values of a function *)
RECURSIVE SumFun(_)
SumFun(f) ==
    IF DOMAIN f = {} THEN 0
    ELSE LET x == CHOOSE y \in DOMAIN f : TRUE
         IN  f[x] + SumFun([z \in DOMAIN f \ {x} |-> f[z]])

ObjValue(val) == SumFun([key \in DOMAIN objective |-> objective[key] * val[assignments[key]]])

(* number of assigned (flight, service, staff) triples *)
Coverage(val) == SumFun([key \in DOMAIN assignments |-> val[assignments[key]]])


----------------------------------------------------------------------------
(* Where a ValueError of get_service_time ends the program.                *)

(* Scheduler.__init__: the overlap map resolves the window of every        *)
(* flight service that is not Multi-Flight                                 *)
overlap_map_raises ==
    \E i \in DOMAIN flights : \E k \in DOMAIN flights[i].flight_services :
        LET fs == flights[i].flight_services[k]
        IN  /\ service_map(fs.id).type # M_FLIGHT
            /\ get_service_time_raises(flights[i], fs.start, fs.end)

(* AvailabilityConstraint.apply resolves the window of every key *)
AvailabilityConstraint_raises ==
    \E key \in DOMAIN assignments :
        LET flight == first_flight(key[1])
            fs == first_by_id(flight.flight_services, key[2])
        IN  get_service_time_raises(flight, fs.start, fs.end)

----------------------------------------------------------------------------
(* Plan and schedule projection.                                           *)

(* Scheduler.get_allocation_plan: add_allocation for every key, with the   *)
(* solved value of its variable as a bool                                  *)
RECURSIVE plan_from(_, _)
plan_from(allocations, keys) ==
    IF keys = {} THEN allocations
    ELSE LET key == CHOOSE k \in keys : TRUE
         IN  plan_from(add_allocation(allocations, key[1], IntKey(key[2]), IntKey(key[3]),
                                      values[assignments[key]] = 1),
                       keys \ {key})

get_allocation_plan == plan_from(EmptyDict, DOMAIN assignments)

(* the ids of the staff members of the roster whose variable for the slot  *)
(* has the value 1, in the order of the roster                             *)
assigned_staff(flight, fs) ==
    LET chosen == SelectSeq(roster, LAMBDA st : values[assignments[Key(flight, fs, st)]] = 1)
    IN  [r \in DOMAIN chosen |-> chosen[r].id]

(* Scheduler.get_schedule: Schedule.allocations.  One FlightAllocation per *)
(* flight, one ServiceAllocation per flight service; the staff of a key    *)
(* are appended to the first slot of the flight with the key's service id. *)
(* The arrival and departure texts are stood for by the times they parse   *)
(* to, a StaffInfo by its staff_id.                                        *)
service_allocations(flight) ==
    LET fss == flight.flight_services
    IN  [k \in DOMAIN fss |->
            LET service == service_map(fss[k].id)
                first == SetMin({j \in DOMAIN fss : service_map(fss[j].id).id = service.id})
            IN  [service_id |-> service.id,
                 service_type |-> service.type,
                 staff_allocation |-> IF k = first THEN assigned_staff(flight, fss[k]) ELSE <<>>,
                 required_staff_count |-> fss[k].count]]

(* a get_schedule that lists only the services that have staff *)
get_schedule_filled_only ==
    [i \in DOMAIN flights |->
        [flight_number |-> flights[i].number,
         arrival |-> flights[i].arrival_time,
         departure |-> flights[i].departure_time,
         services |-> SelectSeq(service_allocations(flights[i]),
                                LAMBDA slot : slot.staff_allocation # <<>>)]]

get_schedule ==
    [i \in DOMAIN flights |->
        [flight_number |-> flights[i].number,
         arrival |-> flights[i].arrival_time,
         departure |-> flights[i].departure_time,
         services |-> service_allocations(flights[i])]]

(* AllocationPlan.get_schedule: Schedule.allocations.  The plan of         *)
(* get_allocation_plan was filled flight by flight, service by service and *)
(* staff member by staff member in the order of the problem, which is the  *)
(* order its dicts are iterated in.                                        *)
AllocationPlan_get_schedule(allocations) ==
    LET listed == SelectSeq(flights, LAMBDA fl : fl.number \in DOMAIN allocations)
    IN  [i \in DOMAIN listed |->
            LET flight == flight_map(listed[i].number)
                by_service == allocations[flight.number]
                fss == SelectSeq(flight.flight_services,
                                 LAMBDA fs : /\ IntKey(fs.id) \in DOMAIN by_service
                                             /\ \E x \in DOMAIN services : services[x].id = fs.id
                                             /\ fs = first_by_id(flight.flight_services, fs.id))
            IN  [flight_number |-> flight.number,
                 arrival |-> flight.arrival_time,
                 departure |-> flight.departure_time,
                 services |->
                    [k \in DOMAIN fss |->
                        LET service == service_map(fss[k].id)
                            by_staff == by_service[IntKey(fss[k].id)]
                            chosen == SelectSeq(roster, LAMBDA st : DictGet(by_staff, IntKey(st.id), FALSE))
                        IN  [service_id |-> service.id,
                             service_type |-> service.type,
                             staff_allocation |-> [r \in DOMAIN chosen |-> chosen[r].id],
                             required_staff_count |-> fss[k].count]]]]

----------------------------------------------------------------------------
(* The explored inputs.  Each family fixes a small airport and lets the    *)
(* fields that decide the constraints range over small sets.               *)

Input(ss, fs, rs, bs) == [services |-> ss, flights |-> fs, roster |-> rs, bays |-> bs]

TestBays ==
    <<Bay("A1", [b \in {"C1"} |-> 20]),
      Bay("C1", [b \in {"A1"} |-> 20])>>

(* One flight, two or three flight-level services, two eligible staff. *)
FlightLevelInputs ==
    {Input(<<Service(1, {1}, ALL, F_LEVEL, l1, ex[1]),
             Service(2, {2}, ALL, F_LEVEL, l2, ex[2]),
             Service(3, {1, 2}, ANY, F_LEVEL, MaxLimit, {})>>,
           <<Flight("DL101", 330, 405, "A1",
                    SubSeq(<<FlightService(1, 1, <<"A", "-", "1", "0">>, <<"A", "+", "1", "5">>),
                             FlightService(2, 1, <<"A", "-", "1", "0">>, <<"A", "+", "1", "0">>),
                             FlightService(3, 1, <<"A">>, <<"D">>)>>, first, 3))>>,
           <<Staff(1, {1, 2}, <<Shift(300, 600)>>),
             Staff(2, {1, 2}, <<Shift(300, 540)>>)>>,
           TestBays) :
        l1 \in 0..MaxLimit, l2 \in 0..MaxLimit,
        ex \in {<<{}, {}>>, <<{2}, {}>>, <<{}, {1}>>},
        first \in {1, 2}}

(* One flight, one service, three staff: shifts, certifications, count. *)
EligibilityInputs ==
    {Input(<<Service(1, required, req, C_LEVEL, 1, {})>>,
           <<Flight("DL101", 330, 405, "A1",
                    <<FlightService(1, count, <<"A", "-", "1", "0">>, <<"A", "+", "1", "5">>)>>)>>,
           <<Staff(1, held, <<Shift(300, 600)>>),
             Staff(2, {1, 2}, shifts),
             Staff(3, {1, 2, 3}, <<Shift(240, 480)>>)>>,
           TestBays) :
        required \in {{}, {1, 2}}, req \in {ALL, ANY}, count \in 0..MaxCount,
        held \in {{}, {1}, {1, 2}},
        shifts \in {<<Shift(300, 600)>>, <<Shift(300, 330), Shift(330, 600)>>, <<Shift(360, 600)>>}}

(* Two flights far apart; common-level, multi-flight and flight-level      *)
(* services mixed on a flight; two staff who may take any service.         *)
CategoryInputs ==
    {Input(<<Service(1, {}, ALL, F_LEVEL, 2, {}),
             Service(3, {}, ALL, C_LEVEL, 1, {}),
             Service(6, {}, ALL, C_LEVEL, 1, {}),
             Service(4, {}, ALL, M_FLIGHT, 1, {}),
             Service(5, {}, ALL, M_FLIGHT, 1, {})>>,
           <<Flight("DL101", 300, 360, "A1",
                    [k \in DOMAIN ids1 |-> FlightService(ids1[k], count, <<"A">>, <<"D">>)]),
             Flight("DL201", 500, 560, "A1",
                    [k \in DOMAIN ids2 |-> FlightService(ids2[k], count, <<"A">>, <<"D">>)])>>,
           <<Staff(1, {}, <<Shift(200, 700)>>),
             Staff(2, {1}, <<Shift(200, 700)>>)>>,
           TestBays) :
        ids1 \in {<<3, 6, 1>>, <<4, 5, 1>>, <<3, 4>>, <<1, 3>>, <<4, 5>>},
        ids2 \in {<<4, 5>>, <<5>>, <<3, 1>>},
        count \in 1..MaxCount}

(* Three flights close to each other on two bays, one service each.        *)
TransitionInputs ==
    {Input(<<Service(1, {1}, ALL, F_LEVEL, 1, {}),
             Service(4, {1}, ALL, M_FLIGHT, 1, {})>>,
           LET A == Flight("DL101", 300, 360, "A1", <<FlightService(1, 1, <<"A">>, endA)>>)
               B == Flight("DL102", 300 + dB * Step, 360 + dB * Step, bayB,
                           <<FlightService(idB, 1, startB, <<"D">>)>>)
               C == Flight("DL103", 300 + dC * Step, 360 + dC * Step, "C1",
                           <<FlightService(1, 1, startC, <<"D">>)>>)
           IN  IF reversed THEN <<C, B, A>> ELSE <<A, B, C>>,
           <<Staff(1, {1}, <<Shift(200, 600)>>),
             Staff(2, {1}, <<Shift(200, 380)>>)>>,
           TestBays) :
        endA \in {<<"A", "+", "1", "5">>, <<"D">>},
        dB \in 0..MaxSlack, dC \in 0..MaxSlack,
        bayB \in {"A1", "C1"}, idB \in {1, 4},
        startB \in {<<"A">>, <<"A", "-", "5", "0">>},
        startC \in {<<"A">>, <<"A", "-", "5", "0">>},
        reversed \in BOOLEAN}

(* One flight with a common-level service and three flight-level services; *)
(* one staff member with a single certification who may take any of them,  *)
(* and one with n certifications who may take the flight-level ones.       *)
ObjectiveInputs ==
    {Input(<<Service(3, {1}, ALL, C_LEVEL, 1, {}),
             Service(1, {1, 2}, ANY, F_LEVEL, MaxLimit + 1, {}),
             Service(2, {1, 2}, ANY, F_LEVEL, MaxLimit + 1, {}),
             Service(7, {1, 2}, ANY, F_LEVEL, MaxLimit + 1, {})>>,
           <<Flight("DL101", 330, 405, "A1",
                    <<FlightService(3, 1, <<"A">>, <<"D">>),
                      FlightService(1, 1, <<"A">>, <<"D">>),
                      FlightService(2, 1, <<"A">>, <<"D">>),
                      FlightService(7, 1, <<"A">>, <<"D">>)>>)>>,
           <<Staff(1, {1}, <<Shift(300, 600)>>),
             Staff(2, {2} \cup {10 + c : c \in 2..n}, <<Shift(300, 600)>>)>>,
           TestBays) :
        n \in 1..MaxCerts}

(* One flight, one slot that needs no certification, two staff on shift    *)
(* who hold between none and two certifications.                           *)
PreferenceInputs ==
    {Input(<<Service(1, {}, ALL, F_LEVEL, 1, {})>>,
           <<Flight("DL101", 330, 405, "A1", <<FlightService(1, 1, <<"A">>, <<"D">>)>>)>>,
           <<Staff(1, a, <<Shift(300, 600)>>),
             Staff(2, b, <<Shift(300, 600)>>)>>,
           TestBays) :
        a \in {{}, {1}, {1, 2}}, b \in {{}, {1}, {1, 2}}}

(* Two flights far apart, one service each, two staff members: the      *)
(* problem that is solved again with the plan of an earlier run as hints   *)
(* (tests/test_delayed_flight_rescheduling.py).                            *)
HintInputs ==
    {Input(<<Service(1, {}, ALL, F_LEVEL, 1, {})>>,
           <<Flight("DL101", 330, 405, "A1", <<FlightService(1, 1, <<"A">>, <<"D">>)>>),
             Flight("DL107", 600, 675, "A1", <<FlightService(1, 1, <<"A">>, <<"D">>)>>)>>,
           <<Staff(1, {}, <<Shift(300, 900)>>), Staff(2, {}, <<Shift(300, 900)>>)>>,
           TestBays)}

(* Two flights; the second may need no service at all, a service may need *)
(* no staff, and the roster may be empty.                                  *)
ProjectionInputs ==
    {Input(<<Service(1, {}, ALL, F_LEVEL, 1, {}), Service(2, {}, ALL, F_LEVEL, 1, {})>>,
           <<Flight("DL101", 330, 405, "A1",
                    <<FlightService(1, c, <<"A">>, <<"D">>), FlightService(2, 1, <<"A">>, <<"D">>)>>),
             Flight("DL107", 600, 675, "A1", fss)>>,
           rs, TestBays) :
        c \in {0, MaxCount},
        fss \in {<<>>, <<FlightService(1, 1, <<"A">>, <<"D">>)>>},
        rs \in {<<>>, <<Staff(1, {}, <<Shift(300, 900)>>), Staff(2, {}, <<Shift(300, 900)>>)>>}}

(* the characters of the explored time expressions *)
Alphabet == {"A", "D", "+", "-", "0", "1", "X"}

(* the texts of at most n characters *)
RECURSIVE Texts(_)
Texts(n) ==
    IF n = 0 THEN {<<>>}
    ELSE LET shorter == Texts(n - 1)
         IN  shorter \cup {Append(cs, c) : cs \in {x \in shorter : Len(x) = n - 1}, c \in Alphabet}

(* every short text, and the expressions with an offset of two digits *)
TimeExprs ==
    Texts(MaxLen) \cup {<<b, sign, d1, d2>> : b \in {"A", "D"}, sign \in {"+", "-"},
                                              d1 \in {"0", "1"}, d2 \in {"0", "5"}}

(* One flight with one service and one staff member on a long shift; the   *)
(* start of the window is any explored expression.                         *)
TimeInputs ==
    {Input(<<Service(1, {}, ALL, type, 1, {})>>,
           <<Flight("DL101", 330, 405, "A1", <<FlightService(1, 1, start, end)>>)>>,
           <<Staff(1, {}, <<Shift(300, 600)>>)>>,
           TestBays) :
        type \in {F_LEVEL, M_FLIGHT}, start \in TimeExprs, end \in {<<"D", "-", "1", "0">>, <<"X">>}}

(* Two flights one after the other, the second on the same bay, on a bay   *)
(* whose travel time is listed, or on a bay for which none is listed.      *)
BayInputs ==
    {Input(<<Service(1, {}, ALL, F_LEVEL, 1, {})>>,
           <<Flight("DL101", 300, 360, "A1", <<FlightService(1, 1, <<"A">>, <<"D">>)>>),
             Flight("DL102", 300 + d * Step, 360 + d * Step, bayB,
                    <<FlightService(1, 1, <<"A">>, <<"D">>)>>)>>,
           <<Staff(1, {}, <<Shift(200, 600)>>)>>,
           <<Bay("A1", [b \in {"C1"} |-> 20]), Bay("B1", EmptyDict), Bay("C1", [b \in {"A1"} |-> 20])>>) :
        d \in 0..MaxSlack, bayB \in {"A1", "B1", "C1"}}

Inputs ==
    FlightLevelInputs \cup EligibilityInputs \cup CategoryInputs
        \cup TransitionInputs \cup ObjectiveInputs \cup PreferenceInputs
        \cup ProjectionInputs \cup TimeInputs \cup BayInputs

(* the flight numbers and the ids that the caller's calls on the plan name *)
PlanFlights == {"DL101", "DL107"}

PlanServices == {1}

PlanStaff == {1, 12}

NoPlan == [made |-> FALSE, allocations |-> EmptyDict]

Plan(allocations) == [made |-> TRUE, allocations |-> allocations]

(* The plans the caller starts from: a new one, and one that an earlier    *)
(* run filled, for a roster and a schedule that have changed since.        *)
FilledPlan ==
    PlanOf(<<<<"DL101", 1, 1, TRUE>>, <<"DL101", 1, 2, FALSE>>, <<"DL107", 1, 2, TRUE>>,
             <<"DL107", 12, 1, TRUE>>, <<"DL999", 1, 1, TRUE>>>>)

InitialPlans == {EmptyDict, FilledPlan}

(* The JSON texts the caller reads into a plan: the empty object, a text   *)
(* that names one flight and a text that names two.                        *)
PlanTexts ==
    {serialize(EmptyDict),
     serialize(PlanOf(<<<<"DL107", 1, 12, TRUE>>>>)),
     serialize(PlanOf(<<<<"DL101", 12, 1, FALSE>>, <<"DL107", 1, 1, TRUE>>>>))}

----------------------------------------------------------------------------
(* The run.                                                                *)

Given(in) ==
    /\ services = in.services
    /\ flights = in.flights
    /\ roster = in.roster
    /\ bays = in.bays

(* the arguments the caller is about to construct Settings with *)
ExploredSettings ==
    {SettingsArgs(buffer, travel, retries) :
        buffer \in (0 - 1)..MaxSetting \cup {default_overlap_tolerance_buffer},
        travel \in (0 - 1)..MaxSetting \cup {default_travel_time},
        retries \in {0, default_max_retries}}

Init ==
    /\ \/ /\ \E in \in Inputs \cup HintInputs : Given(in)
          /\ allocation_plan = NoPlan
          /\ calls_left = 0
          /\ settings = DefaultSettings
       \/ /\ \E in \in HintInputs : Given(in)
          /\ \E allocations \in InitialPlans : allocation_plan = Plan(allocations)
          /\ calls_left = MaxCalls
          /\ settings = DefaultSettings
       \/ /\ \E in \in HintInputs : Given(in)
          /\ allocation_plan = NoPlan
          /\ calls_left = 0
          /\ settings \in ExploredSettings
    /\ hints = NoPlan
    /\ hinted = {}
    /\ schedule = <<>>
    /\ plan_schedule = <<>>
    /\ library \in BOOLEAN
    /\ pc = "new"
    /\ applied = {}
    /\ overlapping_flights_map = NoValues
    /\ assignments = NoValues
    /\ constraints = {}
    /\ indicators = {}
    /\ objective = NoValues
    /\ status = "UNKNOWN"
    /\ values = NoValues

(* The caller's calls on the plan before the run. *)
PlanCall(allocations) ==
    /\ pc = "new"
    /\ allocation_plan.made
    /\ calls_left > 0
    /\ allocation_plan' = Plan(allocations)
    /\ calls_left' = calls_left - 1
    /\ UNCHANGED <<inputs, applied, pc, overlapping_flights_map, assignments, constraints, indicators,
                   objective, status, values, hints, hinted, reports>>

AddAllocation ==
    \E f \in PlanFlights, s \in PlanServices, st \in PlanStaff, v \in BOOLEAN :
        PlanCall(add_allocation(allocation_plan.allocations, f, IntKey(s), IntKey(st), v))

RemoveFlight ==
    \E f \in PlanFlights : PlanCall(remove_flight(allocation_plan.allocations, f))

RemoveService ==
    \E s \in PlanServices \cup {12} : PlanCall(remove_service(allocation_plan.allocations, IntKey(s)))

RemoveStaff ==
    \E st \in PlanStaff : PlanCall(remove_staff(allocation_plan.allocations, IntKey(st)))

(* the plan is written out and read into a new plan, which the caller keeps *)
Reload == PlanCall(deserialize(EmptyDict, serialize(allocation_plan.allocations)))

(* a JSON text is read into the plan the caller holds *)
Deserialize ==
    \E data \in PlanTexts : PlanCall(deserialize(allocation_plan.allocations, data))

(* a ValueError leaves the program *)
Raise(from) ==
    /\ pc = from
    /\ pc' = "raised"
    /\ UNCHANGED <<inputs, applied, caller, reports, overlapping_flights_map, assignments, constraints,
                   indicators, objective, status, values, hints, hinted>>

(* Settings(...): the fields are set and __post_init__ validates them *)
MakeSettings ==
    /\ pc = "new"
    /\ settings.state = "args"
    /\ IF Settings_post_init_raises(settings)
       THEN pc' = "raised" /\ settings' = settings
       ELSE pc' = pc /\ settings' = Built(settings)
    /\ UNCHANGED <<services, flights, roster, bays, library, applied, caller, reports, overlapping_flights_map,
                   assignments, constraints, indicators, objective, status, values, hints, hinted>>

(* Scheduler.__init__; the caller passes the plan, if there is one, as hints *)
Construct ==
    /\ pc = "new"
    /\ settings.state = "built"
    /\ ~overlap_map_raises
    /\ overlapping_flights_map' = IF library THEN detect_overlaps ELSE get_overlapping_flights_map
    /\ hints' = allocation_plan
    /\ pc' = "constructed"
    /\ UNCHANGED <<inputs, applied, caller, reports, assignments, constraints, indicators, objective, status, values,
                   hinted>>

(* run(): create_variables *)
CreateVariables ==
    /\ pc = "constructed"
    /\ assignments' = create_variables_map
    /\ hinted' = create_variables_hints(create_variables_map)
    /\ constraints' = create_variables_model(constraints, create_variables_map,
                                             create_variables_hints(create_variables_map))
    /\ pc' = "variables"
    /\ UNCHANGED <<inputs, applied, caller, reports, overlapping_flights_map, indicators, objective, status, values,
                   hints>>

Emit(from, to, cons, bools) ==
    /\ pc = from
    /\ constraints' = constraints \cup cons
    /\ indicators' = indicators \cup bools
    /\ pc' = to
    /\ UNCHANGED <<inputs, applied, caller, reports, overlapping_flights_map, assignments, objective, status, values,
                   hints, hinted>>

(* run(): add_constraints, one step per builder, in the order of the code *)
ApplyAvailability ==
    ~AvailabilityConstraint_raises /\ Emit("variables", "availability", AvailabilityConstraint_apply, {})

(* Scheduler.__init__ left by the ValueError of get_overlapping_flights_map *)
ConstructRaises == overlap_map_raises /\ settings.state = "built" /\ Raise("new")

(* run() left by the ValueError of AvailabilityConstraint.apply *)
ApplyAvailabilityRaises == AvailabilityConstraint_raises /\ Raise("variables")

ApplyCertification == Emit("availability", "certification", CertificationConstraint_apply, {})

ApplyStaffCount == Emit("certification", "staff_count", StaffCountConstraint_apply, {})

AddFlightLevel ==
    ~library /\ Emit("staff_count", "flight_level", add_flight_level_service_constraints, {})

ApplyFlightLevel ==
    library /\ Emit("staff_count", "flight_level", FlightLevelServiceConstraint_apply, {})

AddCommonLevel ==
    ~library /\ Emit("flight_level", "common_level", add_common_level_service_constraints, {})

ApplyCommonLevel ==
    library /\ Emit("flight_level", "common_level", CommonLevelServiceConstraint_apply,
                    CommonLevelServiceConstraint_indicators)

AddMultiFlight ==
    ~library /\ Emit("common_level", "multi_flight", add_multiflight_service_constraints,
                     multiflight_indicators)

ApplyMultiFlight ==
    library /\ Emit("common_level", "multi_flight", MultiFlightServiceConstraint_apply,
                    multiflight_indicators)

AddFlightTransition ==
    ~library /\ Emit("multi_flight", "transition",
                     add_flight_transition_constraints(overlap_tolerance_buffer), {})

ApplyFlightTransition ==
    library /\ Emit("multi_flight", "transition", FlightTransitionConstraint_apply, {})

(* run(): set_objective *)
SetObjective ==
    /\ pc = "transition"
    /\ objective' = set_objective
    /\ pc' = "objective"
    /\ UNCHANGED <<inputs, applied, caller, reports, overlapping_flights_map, assignments, constraints, indicators,
                   status, values, hints, hinted>>

(* the maximisers of the objective among the solutions *)
OptimalSolutions ==
    LET scored == {<<val, ObjValue(val)>> : val \in Solutions}
        best == SetMax({p[2] : p \in scored})
    IN  {p[1] : p \in {q \in scored : q[2] = best}}

(* run(): solver.Solve(model).  The solver stops with a solution that it   *)
(* has proved optimal, with a solution that it has not (run() accepts      *)
(* both), or with the proof that there is none.                            *)
Solve ==
    /\ pc = "objective"
    /\ pc' = "solved"
    /\ \/ \E val \in Solutions : values' = val /\ status' = "FEASIBLE"
       \/ \E val \in OptimalSolutions : values' = val /\ status' = "OPTIMAL"
       \/ Solutions = {} /\ values' = NoValues /\ status' = "INFEASIBLE"
    /\ UNCHANGED <<inputs, applied, caller, reports, overlapping_flights_map, assignments, constraints, indicators,
                   objective, hints, hinted>>

(* Scheduler.get_schedule, after a run that found a solution *)
GetSchedule ==
    /\ pc = "solved"
    /\ status \in {"OPTIMAL", "FEASIBLE"}
    /\ schedule' = get_schedule
    /\ pc' = "scheduled"
    /\ UNCHANGED <<inputs, applied, caller, overlapping_flights_map, assignments, constraints, indicators,
                   objective, status, values, hints, hinted, plan_schedule>>

(* Scheduler.get_allocation_plan: the caller keeps the plan of the run *)
GetAllocationPlan ==
    /\ pc = "scheduled"
    /\ allocation_plan' = Plan(get_allocation_plan)
    /\ pc' = "planned"
    /\ UNCHANGED <<inputs, applied, calls_left, overlapping_flights_map, assignments, constraints, indicators,
                   objective, status, values, hints, hinted, reports>>

(* AllocationPlan.get_schedule on the plan of the run *)
PlanGetSchedule ==
    /\ pc = "planned"
    /\ plan_schedule' = AllocationPlan_get_schedule(allocation_plan.allocations)
    /\ pc' = "plan_scheduled"
    /\ UNCHANGED <<inputs, applied, caller, overlapping_flights_map, assignments, constraints, indicators,
                   objective, status, values, hints, hinted, schedule>>

Next ==
    \/ MakeSettings
    \/ AddAllocation
    \/ RemoveFlight
    \/ RemoveService
    \/ RemoveStaff
    \/ Reload
    \/ Deserialize
    \/ Construct
    \/ ConstructRaises
    \/ CreateVariables
    \/ ApplyAvailability
    \/ ApplyAvailabilityRaises
    \/ ApplyCertification
    \/ ApplyStaffCount
    \/ AddFlightLevel
    \/ ApplyFlightLevel
    \/ AddCommonLevel
    \/ ApplyCommonLevel
    \/ AddMultiFlight
    \/ ApplyMultiFlight
    \/ AddFlightTransition
    \/ ApplyFlightTransition
    \/ SetObjective
    \/ Solve
    \/ GetSchedule
    \/ GetAllocationPlan
    \/ PlanGetSchedule

Spec == Init /\ [][Next]_vars

(* Result.FOUND *)
Found == pc = "solved" /\ status \in {"OPTIMAL", "FEASIBLE"}

----------------------------------------------------------------------------
(* Vocabulary of the properties.  These definitions restate the rules in   *)
(* terms of the inputs and of the solved values; they do not use the       *)
(* builders above.                                                         *)

Flights == Range(flights)
Roster == Range(roster)
ServicesOn(flight) == Range(flight.flight_services)
TypeOf(fs) == service_map(fs.id).type
OfType(flight, t) == {fs \in ServicesOn(flight) : TypeOf(fs) = t}

(* the solved value of x[f, s, st] is 1 *)
Assigned(flight, fs, staff) == values[assignments[<<flight.number, fs.id, staff.id>>]] = 1

Held(flight, staff) == {fs \in ServicesOn(flight) : Assigned(flight, fs, staff)}

StartOf(flight, fs) == resolve_time(flight, fs.start).t
EndOf(flight, fs) == resolve_time(flight, fs.end).t

Excludes(a, b) == b.id \in service_map(a.id).exclude_services

Compatible(a, b) == ~Excludes(a, b) /\ ~Excludes(b, a)

(* B is in overlap_map[A] *)
Mapped(a, b) ==
    /\ a.number \in DOMAIN overlapping_flights_map
    /\ b.number \in Range(overlapping_flights_map[a.number])

TravelTime(a, b) ==
    LET from == {bays[i] : i \in {j \in DOMAIN bays : bays[j].number = a.bay_number}}
    IN  IF from = {} \/ b.bay_number \notin BayNumbers THEN 0
        ELSE LET bay == CHOOSE x \in from : TRUE
             IN  IF b.bay_number \in DOMAIN bay.travel_time THEN bay.travel_time[b.bay_number] ELSE 0

LatestEnd(flight) ==
    LET ends == {EndOf(flight, fs) : fs \in {x \in ServicesOn(flight) : TypeOf(x) # M_FLIGHT}}
    IN  IF ends = {} THEN flight.departure_time ELSE SetMax(ends)

EarliestStart(flight) ==
    LET starts == {StartOf(flight, fs) : fs \in {x \in ServicesOn(flight) : TypeOf(x) # M_FLIGHT}}
    IN  IF starts = {} THEN flight.arrival_time ELSE SetMin(starts)

(* the conflict test of the detector on a pair of flights *)
FlightsConflict(a, b) ==
    LatestEnd(a) + Max2(TravelTime(a, b) - overlap_tolerance_buffer, 0) > EarliestStart(b)

----------------------------------------------------------------------------
(* C1.  Flight-level cross-utilization: in every assignment that satisfies *)
(* the model, for every flight, every staff member and each flight-level   *)
(* service s of the flight that the staff member holds, the number of      *)
(* flight-level services of the flight that the staff member holds and     *)
(* that are compatible with s, s included, is at most the                  *)
(* cross_utilization_limit of s.                                           *)
CrossUtilizationRespected ==
    Found =>
        \A flight \in Flights, staff \in Roster :
            \A s \in OfType(flight, F_LEVEL) :
                Assigned(flight, s, staff) =>
                    Cardinality({t \in OfType(flight, F_LEVEL) :
                                    Assigned(flight, t, staff) /\ (t = s \/ Compatible(s, t))})
                        <= service_map(s.id).cross_utilization_limit

(* C2.  Overlap-map completeness: for every two flights A and B with A     *)
(* before B in arrival order, if the conflict test holds for (A, B) then   *)
(* B is in overlap_map[A].                                                 *)
OverlapMapComplete ==
    pc # "new" =>
        \A i \in DOMAIN sorted_flights, j \in DOMAIN sorted_flights :
            (i < j /\ FlightsConflict(sorted_flights[i], sorted_flights[j]))
                => Mapped(sorted_flights[i], sorted_flights[j])

(* C3.  Transition feasibility: in every assignment that satisfies the     *)
(* model, a staff member who holds a non-multi-flight service sA on A and  *)
(* a non-multi-flight service sB on B, with B in overlap_map[A], has       *)
(* end(sA) + travel_time(bay_A, bay_B) <= start(sB) + buffer.              *)
TransitionFeasible ==
    Found =>
        \A staff \in Roster, a \in Flights, b \in Flights :
            Mapped(a, b) =>
                \A sA \in Held(a, staff), sB \in Held(b, staff) :
                    (TypeOf(sA) # M_FLIGHT /\ TypeOf(sB) # M_FLIGHT) =>
                        EndOf(a, sA) + TravelTime(a, b) <= StartOf(b, sB) + overlap_tolerance_buffer

(* A staff member holds non-multi-flight services on two mapped flights,   *)
(* the second of which starts before the first has ended.                  *)
TransitionWitness ==
    /\ Found
    /\ \E staff \in Roster, a \in Flights, b \in Flights :
          /\ Mapped(a, b)
          /\ \E sA \in Held(a, staff), sB \in Held(b, staff) :
                /\ TypeOf(sA) # M_FLIGHT /\ TypeOf(sB) # M_FLIGHT
                /\ EndOf(a, sA) > StartOf(b, sB)

(* C4.  Multi-flight consistency: in every assignment that satisfies the   *)
(* model, the multi-flight service ids that a staff member holds over all  *)
(* flights are at most one.                                                *)
MultiFlightConsistent ==
    Found =>
        \A staff \in Roster :
            Cardinality(UNION {{fs.id : fs \in {x \in Held(flight, staff) : TypeOf(x) = M_FLIGHT}} :
                               flight \in Flights}) <= 1

(* A staff member holds one multi-flight service on two flights that both  *)
(* list a second multi-flight service.                                     *)
MultiFlightWitness ==
    /\ Found
    /\ \E staff \in Roster, a \in Flights, b \in Flights :
          /\ a.number # b.number
          /\ Cardinality(OfType(a, M_FLIGHT)) > 1 /\ Cardinality(OfType(b, M_FLIGHT)) > 1
          /\ \E sA \in Held(a, staff), sB \in Held(b, staff) :
                TypeOf(sA) = M_FLIGHT /\ sA.id = sB.id

(* C5.  Category singleness: in every assignment that satisfies the model, *)
(* a staff member holds on a flight at most one common-level service and   *)
(* at most one multi-flight service, and a common-level or multi-flight    *)
(* service that the staff member holds on the flight is the only service   *)
(* the staff member holds on it.                                           *)
CategorySingle ==
    Found =>
        \A flight \in Flights, staff \in Roster :
            /\ Cardinality({fs \in Held(flight, staff) : TypeOf(fs) = C_LEVEL}) <= 1
            /\ Cardinality({fs \in Held(flight, staff) : TypeOf(fs) = M_FLIGHT}) <= 1
            /\ (\E fs \in Held(flight, staff) : TypeOf(fs) \in {C_LEVEL, M_FLIGHT})
                  => Cardinality(Held(flight, staff)) = 1

(* On a flight that lists services of two categories, one staff member     *)
(* holds a common-level service and another holds a multi-flight service.  *)
CategoryWitness ==
    /\ Found
    /\ \E flight \in Flights, one \in Roster, two \in Roster :
          /\ \E fs \in Held(flight, one) : TypeOf(fs) = C_LEVEL
          /\ \E fs \in Held(flight, two) : TypeOf(fs) = M_FLIGHT
    /\ \E flight \in Flights, staff \in Roster :
          /\ \E fs \in Held(flight, staff) : TypeOf(fs) = C_LEVEL
          /\ OfType(flight, F_LEVEL) # {}

(* C6.  Flight-level exclusion is symmetric: in every assignment that      *)
(* satisfies the model, no staff member holds on one flight two            *)
(* flight-level services of which one lists the other in its               *)
(* exclude_services, whichever of the two declares the exclusion.          *)
ExclusionSymmetric ==
    Found =>
        \A flight \in Flights, staff \in Roster :
            \A a \in OfType(flight, F_LEVEL), b \in OfType(flight, F_LEVEL) :
                (a.id # b.id /\ Assigned(flight, a, staff) /\ Assigned(flight, b, staff))
                    => (~Excludes(a, b) /\ ~Excludes(b, a))

(* An exclusion declared by one of two services only, the declaring        *)
(* service held by one staff member and the other service by another.      *)
ExclusionWitness ==
    /\ Found
    /\ \E flight \in Flights, one \in Roster, two \in Roster :
          \E a \in OfType(flight, F_LEVEL), b \in OfType(flight, F_LEVEL) :
              /\ Excludes(a, b) /\ ~Excludes(b, a)
              /\ one # two
              /\ Assigned(flight, a, one) /\ Assigned(flight, b, two)

(* C7.  Availability: in every assignment that satisfies the model, an     *)
(* assigned staff member has at least one shift that starts no later than  *)
(* the window of the service and ends no earlier than it.                  *)
AvailabilityRespected ==
    Found =>
        \A flight \in Flights, staff \in Roster :
            \A fs \in Held(flight, staff) :
                \E shift \in Range(staff.shifts) :
                    shift.start <= StartOf(flight, fs) /\ shift.end >= EndOf(flight, fs)

(* Two shifts of a staff member cover the window between them, neither     *)
(* contains it, the staff member is left out although the count of the     *)
(* service is not reached, and another staff member is assigned.           *)
AvailabilityWitness ==
    /\ Found
    /\ \E flight \in Flights, fs \in Range(flights[1].flight_services), staff \in Roster :
          /\ fs \in ServicesOn(flight)
          /\ \E s1 \in Range(staff.shifts), s2 \in Range(staff.shifts) :
                /\ s1.start <= StartOf(flight, fs) /\ s1.end < EndOf(flight, fs)
                /\ s2.start = s1.end /\ s2.end >= EndOf(flight, fs)
          /\ ~Assigned(flight, fs, staff)
          /\ \E other \in Roster : Assigned(flight, fs, other)
          /\ Cardinality({st \in Roster : Assigned(flight, fs, st)}) < fs.count

(* C8.  Certification: in every assignment that satisfies the model, an    *)
(* assigned staff member holds every certification of the service when     *)
(* the requirement is ALL and at least one of them when it is ANY.         *)
CertificationRespected ==
    Found =>
        \A flight \in Flights, staff \in Roster :
            \A fs \in Held(flight, staff) :
                LET required == service_map(fs.id).certifications
                    rule == service_map(fs.id).certification_requirement
                IN  \/ rule = ALL /\ required \subseteq staff.certifications
                    \/ rule = ANY /\ required \cap staff.certifications # {}

(* Under ANY a staff member with one of the two certifications is          *)
(* assigned.                                                               *)
CertificationWitness ==
    /\ Found
    /\ \E flight \in Flights, staff \in Roster :
          \E fs \in Held(flight, staff) :
              /\ service_map(fs.id).certification_requirement = ANY
              /\ service_map(fs.id).certifications \cap staff.certifications # {}
              /\ ~(service_map(fs.id).certifications \subseteq staff.certifications)

(* C9.  Capacity: in every assignment that satisfies the model, the number *)
(* of staff assigned to a flight service is at most its count.             *)
CapacityRespected ==
    Found =>
        \A flight \in Flights :
            \A fs \in ServicesOn(flight) :
                Cardinality({staff \in Roster : Assigned(flight, fs, staff)}) <= fs.count

(* A service is staffed up to its count although more staff members have   *)
(* the shift and the certifications for it.                                *)
CapacityWitness ==
    /\ Found
    /\ \E flight \in Flights :
          \E fs \in ServicesOn(flight) :
              /\ fs.count > 0
              /\ Cardinality({staff \in Roster : Assigned(flight, fs, staff)}) = fs.count
              /\ Cardinality({staff \in Roster :
                                /\ service_map(fs.id).certifications \subseteq staff.certifications
                                /\ \E shift \in Range(staff.shifts) :
                                      shift.start <= StartOf(flight, fs)
                                          /\ shift.end >= EndOf(flight, fs)}) > fs.count

(* C10.  Coverage is maximized: an assignment that is optimal for the      *)
(* objective has the largest number of assigned (flight, service, staff)   *)
(* triples among the assignments that satisfy the constraints.             *)
CoverageMaximized ==
    (pc = "solved" /\ status = "OPTIMAL") =>
        \A val \in Solutions : Coverage(val) <= Coverage(values)

(* Staff who have a shift that contains the window of the service and who  *)
(* meet its certification rule.                                            *)
EligibleStaff(flight, fs) ==
    {staff \in Roster :
        /\ \E shift \in Range(staff.shifts) :
              shift.start <= StartOf(flight, fs) /\ shift.end >= EndOf(flight, fs)
        /\ LET required == service_map(fs.id).certifications
               rule == service_map(fs.id).certification_requirement
           IN  \/ rule = ALL /\ required \subseteq staff.certifications
               \/ rule = ANY /\ required \cap staff.certifications # {}}

(* one flight, one service of count 1, two or more eligible staff, and an  *)
(* assignment that the solver has proved optimal                           *)
SingleSlotOptimal ==
    /\ pc = "solved" /\ status = "OPTIMAL"
    /\ Len(flights) = 1 /\ Len(flights[1].flight_services) = 1
    /\ flights[1].flight_services[1].count = 1
    /\ Cardinality(EligibleStaff(flights[1], flights[1].flight_services[1])) >= 2

----------------------------------------------------------------------------
(* Hints.                                                                  *)

(* the constraints that add_constraints emits for the problem *)
BuilderConstraints ==
    AvailabilityConstraint_apply \cup CertificationConstraint_apply \cup StaffCountConstraint_apply
        \cup (IF library
              THEN FlightLevelServiceConstraint_apply \cup CommonLevelServiceConstraint_apply
                     \cup MultiFlightServiceConstraint_apply \cup FlightTransitionConstraint_apply
              ELSE add_flight_level_service_constraints \cup add_common_level_service_constraints
                     \cup add_multiflight_service_constraints
                     \cup add_flight_transition_constraints(overlap_tolerance_buffer))

(* C12: when a plan is given as hints, the solutions of the model are the  *)
(* solutions of the constraints of the problem, which are the model of the *)
(* run without hints; a solution is found exactly when these have one, and *)
(* a solution reported optimal maximises the objective among them.         *)
HintNeutral ==
    hints.made /\ pc \in {"objective", "solved"} =>
        LET free == SolutionsOf(BuilderConstraints)
        IN  /\ Solutions = free
            /\ pc = "solved" =>
                  /\ Found <=> free # {}
                  /\ Found => values \in free
                  /\ status = "OPTIMAL" => \A val \in free : ObjValue(val) <= ObjValue(values)

(* a run with hints whose optimal solution leaves a hinted slot unfilled *)
HintNeutralWitness ==
    /\ pc = "solved"
    /\ status = "OPTIMAL"
    /\ hints.made
    /\ \E key \in hinted : values[assignments[key]] = 0

(* the plan holds the value true for the triple *)
PlanTrue(allocations, f, s, st) ==
    /\ f \in DOMAIN allocations
    /\ IntKey(s) \in DOMAIN allocations[f]
    /\ IntKey(st) \in DOMAIN allocations[f][IntKey(s)]
    /\ allocations[f][IntKey(s)][IntKey(st)] = TRUE

(* C13: once the variables are created, a hint of value 1 is registered    *)
(* for a triple exactly when the triple is a variable of the problem and   *)
(* the plan given as hints holds true for it; and a plan from which a      *)
(* flight has just been removed holds true for no triple of that flight.   *)
HintsFollowPlan ==
    /\ pc \notin {"new", "constructed"} =>
          /\ hinted \subseteq DOMAIN assignments
          /\ \A key \in DOMAIN assignments :
                key \in hinted <=> (hints.made /\ PlanTrue(hints.allocations, key[1], key[2], key[3]))
    /\ pc = "new" /\ allocation_plan.made =>
          \A f \in PlanFlights, s \in PlanServices \cup {12}, st \in PlanStaff \cup {2} :
              ~PlanTrue(remove_flight(allocation_plan.allocations, f), f, s, st)

(* a run hinted by the filled plan after remove_flight("DL107"): the hint  *)
(* for DL101 is registered, none for DL107, none for the entry that is     *)
(* false and none for the flight that is not in the problem                *)
HintsFollowPlanWitness ==
    /\ pc = "variables"
    /\ hints = Plan(remove_flight(FilledPlan, "DL107"))
    /\ calls_left = MaxCalls - 1
    /\ hinted = {<<"DL101", 1, 1>>}
    /\ "DL107" \in {key[1] : key \in DOMAIN assignments}

----------------------------------------------------------------------------
(* The allocation plan.                                                    *)

(* the keys of the two inner levels of a plan *)
InnerKeys(allocations) ==
    UNION {DOMAIN allocations[f] \cup UNION {DOMAIN allocations[f][s] : s \in DOMAIN allocations[f]} :
           f \in DOMAIN allocations}

(* C14: a plan that is serialized and deserialized into a new plan is the  *)
(* plan it was: the same flight numbers, and the service and staff ids     *)
(* again ints with the entries they had.                                   *)
PlanRoundTrip ==
    allocation_plan.made =>
        LET p == allocation_plan.allocations
            q == deserialize(EmptyDict, serialize(p))
        IN  /\ q = p
            /\ DOMAIN q = DOMAIN p
            /\ \A k \in InnerKeys(q) : k.type = "int"
            /\ \A k \in InnerKeys(serialize(p)) : k.type = "str"

(* the filled plan after remove_staff(1) and one more call: two-digit ids, *)
(* true and false entries, and services left with no staff at all          *)
PlanRoundTripWitness ==
    /\ pc = "new"
    /\ calls_left = 0
    /\ allocation_plan = Plan(remove_staff(FilledPlan, IntKey(1)))
    /\ IntKey(12) \in InnerKeys(allocation_plan.allocations)
    /\ \E f \in DOMAIN allocation_plan.allocations :
          EmptyDict \in Range(allocation_plan.allocations[f])

(* the flight numbers and ids that the explored plans can name *)
AllPlanFlights == PlanFlights \cup {"DL999"}

AllPlanIds == {IntKey(n) : n \in PlanServices \cup PlanStaff \cup {2}}

PlanTriples == AllPlanFlights \X AllPlanIds \X AllPlanIds

Lookup(allocations, t) == get_allocation(allocations, t[1], t[2], t[3])

(* C15: on every plan the caller reaches, add_allocation(f, s, st, v)      *)
(* makes get_allocation(f, s, st) answer v and changes no other answer;    *)
(* remove_flight(f), remove_service(s) and remove_staff(st) make every     *)
(* triple of that flight, service or staff member answer the missing-entry *)
(* result False, change no other answer and no other entry, and leave the  *)
(* plan as it is when the id is absent.                                    *)
PlanIsMap ==
    pc = "new" /\ allocation_plan.made =>
        LET p == allocation_plan.allocations
        IN  /\ \A t \in PlanTriples, v \in BOOLEAN :
                  LET q == add_allocation(p, t[1], t[2], t[3], v)
                  IN  \A u \in PlanTriples : Lookup(q, u) = (IF u = t THEN v ELSE Lookup(p, u))
            /\ \A f \in AllPlanFlights :
                  LET q == remove_flight(p, f)
                  IN  /\ \A u \in PlanTriples :
                            Lookup(q, u) = (IF u[1] = f THEN FALSE ELSE Lookup(p, u))
                      /\ \A g \in DOMAIN p \ {f} : g \in DOMAIN q /\ q[g] = p[g]
                      /\ f \notin DOMAIN p => q = p
            /\ \A s \in AllPlanIds :
                  LET q == remove_service(p, s)
                  IN  /\ \A u \in PlanTriples :
                            Lookup(q, u) = (IF u[2] = s THEN FALSE ELSE Lookup(p, u))
                      /\ DOMAIN q = DOMAIN p
                      /\ \A g \in DOMAIN p : \A x \in DOMAIN p[g] \ {s} :
                            x \in DOMAIN q[g] /\ q[g][x] = p[g][x]
                      /\ (\A g \in DOMAIN p : s \notin DOMAIN p[g]) => q = p
            /\ \A st \in AllPlanIds :
                  LET q == remove_staff(p, st)
                  IN  /\ \A u \in PlanTriples :
                            Lookup(q, u) = (IF u[3] = st THEN FALSE ELSE Lookup(p, u))
                      /\ DOMAIN q = DOMAIN p
                      /\ \A g \in DOMAIN p :
                            /\ DOMAIN q[g] = DOMAIN p[g]
                            /\ \A x \in DOMAIN p[g] : \A y \in DOMAIN p[g][x] \ {st} :
                                  y \in DOMAIN q[g][x] /\ q[g][x][y] = p[g][x][y]
                      /\ (\A g \in DOMAIN p : \A x \in DOMAIN p[g] : st \notin DOMAIN p[g][x]) => q = p

(* the filled plan after remove_flight("DL107") and a later                *)
(* add_allocation("DL107", 1, 12, True): the new entry answers true, the   *)
(* removed one answers False, the entries of DL101 answer as before        *)
PlanIsMapWitness ==
    /\ pc = "new"
    /\ calls_left = 0
    /\ allocation_plan =
          Plan(add_allocation(remove_flight(FilledPlan, "DL107"), "DL107", IntKey(1), IntKey(12), TRUE))
    /\ Lookup(allocation_plan.allocations, <<"DL107", IntKey(1), IntKey(12)>>)
    /\ ~Lookup(allocation_plan.allocations, <<"DL107", IntKey(1), IntKey(2)>>)
    /\ Lookup(FilledPlan, <<"DL107", IntKey(1), IntKey(2)>>)
    /\ Lookup(allocation_plan.allocations, <<"DL101", IntKey(1), IntKey(1)>>)

----------------------------------------------------------------------------
(* Schedule projection.                                                    *)

Projected == pc \in {"scheduled", "planned", "plan_scheduled"}

(* C16: the schedule of a solved run has one entry per flight, in it one   *)
(* slot per flight service with the service's id and required count, and a *)
(* staff member is in the slot exactly when the variable of the triple has *)
(* the value 1; a slot nobody is assigned to is there with an empty list.  *)
ScheduleProjection ==
    Projected =>
        /\ Len(schedule) = Len(flights)
        /\ \A f \in Flights : Cardinality({i \in DOMAIN schedule : schedule[i].flight_number = f.number}) = 1
        /\ \A i \in DOMAIN flights :
              LET fss == flights[i].flight_services
                  entry == schedule[i]
              IN  /\ entry.flight_number = flights[i].number
                  /\ Len(entry.services) = Len(fss)
                  /\ \A k \in DOMAIN fss :
                        LET slot == entry.services[k]
                            listed == Range(slot.staff_allocation)
                        IN  /\ slot.service_id = fss[k].id
                            /\ slot.required_staff_count = fss[k].count
                            /\ listed \subseteq {st.id : st \in Roster}
                            /\ \A st \in Roster : st.id \in listed <=> Assigned(flights[i], fss[k], st)
                            /\ Cardinality(listed) = Len(slot.staff_allocation)

(* a schedule with a slot of two staff members, a slot that needs one and  *)
(* got none, and a flight that needs no service                            *)
ScheduleProjectionWitness ==
    /\ pc = "scheduled"
    /\ \E i \in DOMAIN schedule : schedule[i].services = <<>>
    /\ \E i \in DOMAIN schedule : \E k \in DOMAIN schedule[i].services :
          Len(schedule[i].services[k].staff_allocation) = 2
    /\ \E i \in DOMAIN schedule : \E k \in DOMAIN schedule[i].services :
          /\ schedule[i].services[k].staff_allocation = <<>>
          /\ schedule[i].services[k].required_staff_count = 1

(* C17: the schedule that AllocationPlan.get_schedule gives for the plan   *)
(* of get_allocation_plan is the schedule of Scheduler.get_schedule: the   *)
(* same flights, services, required counts and staff.                      *)
PlanScheduleSameShape ==
    pc = "plan_scheduled" => plan_schedule = schedule

----------------------------------------------------------------------------
(* Time expressions.                                                       *)

(* 'A', 'D', or 'A' or 'D' followed by '+' or '-' and one or more digits *)
WellFormed(cs) ==
    \/ cs \in {<<"A">>, <<"D">>}
    \/ /\ Len(cs) >= 3
       /\ cs[1] \in {"A", "D"}
       /\ cs[2] \in {"+", "-"}
       /\ \A i \in 3..Len(cs) : cs[i] \in Digits

(* C18: get_service_time fails for every flight service whose start or end *)
(* expression is not well formed.                                          *)
MalformedRejected ==
    \A flight \in Flights : \A fs \in ServicesOn(flight) :
        ~(WellFormed(fs.start) /\ WellFormed(fs.end)) =>
            get_service_time_raises(flight, fs.start, fs.end)

(* the time a well-formed expression stands for *)
Denoted(flight, cs) ==
    LET base == IF cs[1] = "A" THEN flight.arrival_time ELSE flight.departure_time
        k == IF Len(cs) = 1 THEN 0 ELSE DecVal(SubSeq(cs, 3, Len(cs)))
    IN  IF Len(cs) > 1 /\ cs[2] = "-" THEN base - k ELSE base + k

(* C19: for a flight service whose expressions are well formed,            *)
(* get_service_time returns, and the window is the pair of the times the   *)
(* start and the end expressions stand for: the arrival or the departure,  *)
(* plus or minus the minutes written.                                      *)
TimeResolution ==
    \A flight \in Flights : \A fs \in ServicesOn(flight) :
        WellFormed(fs.start) /\ WellFormed(fs.end) =>
            /\ ~get_service_time_raises(flight, fs.start, fs.end)
            /\ get_service_time(flight, fs.start, fs.end) = <<Denoted(flight, fs.start), Denoted(flight, fs.end)>>
            /\ Window(flight, fs) = <<Denoted(flight, fs.start), Denoted(flight, fs.end)>>

(* a run that got past the overlap map and the availability constraints    *)
(* with a window from 15 minutes before the arrival to 10 minutes before   *)
(* the departure                                                           *)
TimeResolutionWitness ==
    /\ pc = "availability"
    /\ \E flight \in Flights : \E fs \in ServicesOn(flight) :
          /\ fs.start = <<"A", "-", "1", "5">>
          /\ fs.end = <<"D", "-", "1", "0">>
          /\ Window(flight, fs) = <<flight.arrival_time - 15, flight.departure_time - 10>>

----------------------------------------------------------------------------
(* The certification predicate.                                            *)

(* C20: for every staff member and service of the problem,                 *)
(* can_perform_service is true under ALL exactly when every required       *)
(* certification is held and under ANY exactly when one at least is held;  *)
(* with nothing required it is true under ALL and false under ANY, and no  *)
(* solution assigns anybody to a service of rule ANY that requires nothing.*)
CertificationPredicate ==
    /\ \A staff \in Roster : \A i \in DOMAIN services :
          LET service == services[i]
              required == service.certifications
              rule == service.certification_requirement
          IN  /\ rule = ALL => (can_perform_service(staff, service) <=> required \subseteq staff.certifications)
              /\ rule = ANY => (can_perform_service(staff, service) <=> required \cap staff.certifications # {})
              /\ required = {} => (can_perform_service(staff, service) <=> rule = ALL)
    /\ Found =>
          \A flight \in Flights, staff \in Roster : \A fs \in Held(flight, staff) :
              ~(service_map(fs.id).certification_requirement = ANY /\ service_map(fs.id).certifications = {})

(* an optimal solution that leaves a slot of a service of rule ANY with no *)
(* required certification empty, with a staff member on shift for it       *)
CertificationPredicateWitness ==
    /\ Found
    /\ status = "OPTIMAL"
    /\ \E flight \in Flights : \E fs \in ServicesOn(flight) :
          /\ service_map(fs.id).certification_requirement = ANY
          /\ service_map(fs.id).certifications = {}
          /\ fs.count >= 1
          /\ \E staff \in Roster :
                is_available_for_service(staff, StartOf(flight, fs), EndOf(flight, fs))
          /\ \A staff \in Roster : ~Assigned(flight, fs, staff)

----------------------------------------------------------------------------
(* Validation.                                                             *)

(* C21: a problem with a time expression that is not well formed never     *)
(* gets past the construction of the Scheduler, and a ValueError leaves    *)
(* the program at construction, before any variable is created.            *)
ValidatedAtConstruction ==
    /\ pc \notin {"new", "raised"} =>
          \A flight \in Flights : \A fs \in ServicesOn(flight) :
              WellFormed(fs.start) /\ WellFormed(fs.end)
    /\ pc = "raised" => assignments = NoValues

----------------------------------------------------------------------------
(* Settings.                                                               *)

(* C26: constructing Settings fails exactly when the overlap tolerance     *)
(* buffer is below 0 or the default travel time is 0 or below; a Settings  *)
(* object that exists has a buffer of 0 or more and a default travel time  *)
(* above 0; and Settings() has the values 15, 5 and 3.                     *)
SettingsValidated ==
    /\ settings.state = "args" =>
          /\ Settings_post_init_raises(settings) <=>
                (settings.overlap_tolerance_buffer < 0 \/ settings.default_travel_time <= 0)
          /\ pc = "raised" =>
                (settings.overlap_tolerance_buffer < 0 \/ settings.default_travel_time <= 0)
    /\ settings.state = "built" =>
          /\ settings.overlap_tolerance_buffer >= 0
          /\ settings.default_travel_time > 0
    /\ DefaultSettings.overlap_tolerance_buffer = 15
    /\ DefaultSettings.default_travel_time = 5
    /\ DefaultSettings.max_retries = 3
    /\ ~Settings_post_init_raises(DefaultSettings)

(* Settings(overlap_tolerance_buffer=0, default_travel_time=1) was built,  *)
(* and the run that followed found a solution                              *)
SettingsWitness ==
    /\ Found
    /\ settings.state = "built"
    /\ settings.overlap_tolerance_buffer = 0
    /\ settings.default_travel_time = 1

----------------------------------------------------------------------------
(* Travel times.                                                           *)

(* C22: once the Scheduler is constructed, the travel time it uses for the *)
(* bays of two flights is the entry of the first bay for the second when   *)
(* there is one, 0 for a bay and itself, and the default travel time of    *)
(* the settings for two different bays with no entry.                      *)
TravelTimeLookup ==
    pc \notin {"new", "raised"} =>
        \A a \in Flights, b \in Flights :
            (a.bay_number \in BayNumbers /\ b.bay_number \in BayNumbers) =>
                LET listed == bay_of(a.bay_number).travel_time
                IN  travel_time_map(a.bay_number, b.bay_number) =
                        (IF b.bay_number \in DOMAIN listed THEN listed[b.bay_number]
                         ELSE IF a.bay_number = b.bay_number THEN 0
                         ELSE settings.default_travel_time)

----------------------------------------------------------------------------
(* The pruning of the transition builder.                                  *)

(* the transition constraints of a staff member and a mapped pair of       *)
(* flights when no service pair is skipped for eligibility                 *)
transition_pairs_unpruned(staff, flight_a, flight_b, buffer) ==
    {Add("le", <<assignments[Key(flight_a, service_a, staff)],
                 assignments[Key(flight_b, service_b, staff)]>>, 1) :
        <<service_a, service_b>> \in
            {p \in Range(NonMultiFlight(flight_a)) \X Range(NonMultiFlight(flight_b)) :
                transition_conflict(flight_a, p[1], flight_b, p[2], buffer)}}

flight_transition_constraints_unpruned(buffer) ==
    UNION {UNION {transition_pairs_unpruned(roster[r], flights[i], flight_map(flight_b_num), buffer) :
                    flight_b_num \in Range(DictGet(overlapping_flights_map, flights[i].number, <<>>))} :
           r \in DOMAIN roster, i \in DOMAIN flights}

----------------------------------------------------------------------------
(* The order of the builders.                                              *)

BuilderCount == 7

(* what the k-th builder of add_constraints adds to the model it is given: *)
(* its constraints and its new variables                                   *)
Builder(k) ==
    CASE k = 1 -> [cons |-> AvailabilityConstraint_apply, bools |-> {}]
      [] k = 2 -> [cons |-> CertificationConstraint_apply, bools |-> {}]
      [] k = 3 -> [cons |-> StaffCountConstraint_apply, bools |-> {}]
      [] k = 4 -> [cons |-> IF library THEN FlightLevelServiceConstraint_apply
                                       ELSE add_flight_level_service_constraints,
                   bools |-> {}]
      [] k = 5 -> [cons |-> IF library THEN CommonLevelServiceConstraint_apply
                                       ELSE add_common_level_service_constraints,
                   bools |-> IF library THEN CommonLevelServiceConstraint_indicators ELSE {}]
      [] k = 6 -> [cons |-> IF library THEN MultiFlightServiceConstraint_apply
                                       ELSE add_multiflight_service_constraints,
                   bools |-> multiflight_indicators]
      [] k = 7 -> [cons |-> IF library THEN FlightTransitionConstraint_apply
                                       ELSE add_flight_transition_constraints(overlap_tolerance_buffer),
                   bools |-> {}]

(* The inputs of the runs whose builders are applied in any order: runs    *)
(* with services of the three categories, with flights close to each other *)
(* on different bays, and with a staff member who is not always available. *)
OrderInputs ==
    CategoryInputs \cup ObjectiveInputs \cup BayInputs
        \cup {in \in TransitionInputs :
                 /\ in.flights[1].number = "DL101"
                 /\ in.flights[1].flight_services[1].end = <<"D">>
                 /\ in.flights[2].flight_services[1].id = 4
                 /\ in.flights[2].flight_services[1].start = <<"A">>
                 /\ in.flights[3].flight_services[1].start = <<"A">>}

OrderInit ==
    /\ \E in \in OrderInputs : Given(in)
    /\ allocation_plan = NoPlan
    /\ calls_left = 0
    /\ settings = DefaultSettings
    /\ hints = NoPlan
    /\ hinted = {}
    /\ schedule = <<>>
    /\ plan_schedule = <<>>
    /\ library \in BOOLEAN
    /\ pc = "new"
    /\ applied = {}
    /\ overlapping_flights_map = NoValues
    /\ assignments = NoValues
    /\ constraints = {}
    /\ indicators = {}
    /\ objective = NoValues
    /\ status = "UNKNOWN"
    /\ values = NoValues

(* add_constraints with the order of the builders left open: any builder   *)
(* that was not applied yet is applied to the model                        *)
ApplyBuilder ==
    \E k \in (1..BuilderCount) \ applied :
        /\ pc = "variables"
        /\ k = 1 => ~AvailabilityConstraint_raises
        /\ constraints' = constraints \cup Builder(k).cons
        /\ indicators' = indicators \cup Builder(k).bools
        /\ applied' = applied \cup {k}
        /\ UNCHANGED <<inputs, caller, reports, pc, overlapping_flights_map, assignments, objective,
                       status, values, hints, hinted>>

OrderNext == Construct \/ CreateVariables \/ ApplyBuilder

OrderSpec == OrderInit /\ [][OrderNext]_vars

(* the model that add_constraints builds in the order of the code *)
CodeOrderModel ==
    [cons |-> BuilderConstraints,
     bools |-> multiflight_indicators
                  \cup (IF library THEN CommonLevelServiceConstraint_indicators ELSE {})]

(* C24: whatever the order in which the builders are applied, a builder    *)
(* emits what it emits when it is applied first, so the model after all of *)
(* them is the model built in the order of the code and has its solutions. *)
OrderIndependent ==
    pc = "variables" =>
        /\ constraints = UNION {Builder(k).cons : k \in applied}
        /\ indicators = UNION {Builder(k).bools : k \in applied}
        /\ applied = 1..BuilderCount =>
              /\ constraints = CodeOrderModel.cons
              /\ indicators = CodeOrderModel.bools
              /\ Solutions = SolutionsOf(CodeOrderModel.cons)

(* a model built in some order to which at least four builders gave        *)
(* constraints, the transition builder among them, which has indicator     *)
(* variables and a solution that assigns someone                           *)
OrderIndependentWitness ==
    /\ pc = "variables"
    /\ applied = 1..BuilderCount
    /\ Cardinality({k \in 1..BuilderCount : Builder(k).cons # {}}) >= 4
    /\ Builder(7).cons # {}
    /\ indicators # {}
    /\ \E val \in Solutions : \E key \in DOMAIN assignments : val[assignments[key]] = 1

----------------------------------------------------------------------------
(* The direction of the overlap map.                                       *)

(* C25: every flight B in the list of a flight A of the overlap map is a   *)
(* different flight that does not arrive before A, and A is not in the     *)
(* list of B; so no flight is mapped to itself and no pair is mapped in    *)
(* both directions.                                                        *)
StrictlyForward ==
    pc \notin {"new", "raised"} =>
        \A a \in Flights, b \in Flights :
            Mapped(a, b) =>
                /\ b.number # a.number
                /\ a.arrival_time <= b.arrival_time
                /\ ~Mapped(b, a)

(* a map built from three flights, two of which arrive at the same minute  *)
(* and one of which is mapped to the other                                 *)
StrictlyForwardWitness ==
    /\ pc = "constructed"
    /\ Len(flights) = 3
    /\ \E a \in Flights, b \in Flights :
          /\ Mapped(a, b)
          /\ a.arrival_time = b.arrival_time
    /\ \E a \in Flights, b \in Flights :
          /\ Mapped(a, b)
          /\ a.arrival_time < b.arrival_time

----------------------------------------------------------------------------
(* The emission of the cross-utilization constraints.                      *)

(* the other flight-level services of a flight that may be held with s *)
CompatibleOthers(flight, s) ==
    {o \in OfType(flight, F_LEVEL) : o.id # s.id /\ Compatible(s, o)}

(* what the flight-level builder of the run added to the model *)
FlightLevelEmitted == {c \in constraints : c \in Builder(4).cons}

(* the builder added x[f,s,st] + the sum of x[f,s',st] over the given      *)
(* others <= the cross-utilization limit of s                              *)
CrossUtilizationEmittedFor(flight, s, staff, others) ==
    \E c \in FlightLevelEmitted :
        /\ c.op = "le"
        /\ c.enforce = <<>>
        /\ c.rhs = service_map(s.id).cross_utilization_limit
        /\ Len(c.vars) = 1 + Cardinality(others)
        /\ Range(c.vars) = {assignments[Key(flight, o, staff)] : o \in others \cup {s}}

(* c is var_a + var_b <= 1 for two services of which one excludes the other *)
IsExclusion(c, flight, staff) ==
    \E a \in OfType(flight, F_LEVEL), b \in OfType(flight, F_LEVEL) :
        /\ Excludes(a, b)
        /\ c.rhs = 1
        /\ Range(c.vars) = {assignments[Key(flight, a, staff)], assignments[Key(flight, b, staff)]}

(* C27: for every flight, staff member and flight-level service s of the   *)
(* flight, the builder adds the cross-utilization constraint of s when s   *)
(* has a compatible other flight-level service on the flight, and when it  *)
(* has none the builder adds for s nothing but exclusions.                 *)
CrossUtilizationEmission ==
    pc = "flight_level" =>
        \A flight \in Flights, staff \in Roster :
            \A s \in OfType(flight, F_LEVEL) :
                IF CompatibleOthers(flight, s) # {}
                THEN CrossUtilizationEmittedFor(flight, s, staff, CompatibleOthers(flight, s))
                ELSE \A c \in FlightLevelEmitted :
                        assignments[Key(flight, s, staff)] \in Range(c.vars)
                            => IsExclusion(c, flight, staff)

----------------------------------------------------------------------------
(* Feasibility of the model.                                               *)

(* every variable of the model, the indicators included, at 0 *)
AllZero == [v \in ModelVars |-> 0]

NonNegativeInstance ==
    /\ \A flight \in Flights : \A fs \in ServicesOn(flight) : fs.count >= 0
    /\ \A k \in DOMAIN services : services[k].cross_utilization_limit >= 0

(* C28: when no required count and no cross-utilization limit is negative, *)
(* the assignment with every variable and every indicator at 0 satisfies   *)
(* the constraints of the model after each builder, and a run that reaches *)
(* the solver finds a solution.                                            *)
NeverInfeasible ==
    NonNegativeInstance =>
        /\ pc \in {"availability", "certification", "staff_count", "flight_level", "common_level",
                   "multi_flight", "transition", "objective", "solved"}
              => Satisfies(AllZero)
        /\ pc = "solved" => status \in {"OPTIMAL", "FEASIBLE"}

(* a solved run whose model has indicators, constraints enforced by them   *)
(* and transition constraints, and whose solution assigns nobody           *)
NeverInfeasibleWitness ==
    /\ Found
    /\ NonNegativeInstance
    /\ indicators # {}
    /\ \E c \in constraints : c.enforce # <<>>
    /\ Builder(7).cons # {}
    /\ values = AllZero

----------------------------------------------------------------------------
(* The frame of AllocationPlan.deserialize.                                *)

(* what json.loads and the int conversions make of a text *)
Decoded(data) == deserialize(EmptyDict, data)

(* deserialize replaces the whole entry of every flight the text names and *)
(* leaves the entry of every other flight as it was                        *)
DeserializeFrame(before, data) ==
    LET after == deserialize(before, data)
    IN  /\ DOMAIN after = DOMAIN before \cup DOMAIN data
        /\ \A f \in DOMAIN data : after[f] = Decoded(data)[f]
        /\ \A f \in DOMAIN before \ DOMAIN data : after[f] = before[f]

(* C29, as stated: deserialize merges, and the plan equals the decoded     *)
(* text only when the plan was empty before the call.                      *)
DeserializeEqualsOnlyIfEmpty ==
    (pc = "new" /\ allocation_plan.made) =>
        \A data \in PlanTexts :
            /\ DeserializeFrame(allocation_plan.allocations, data)
            /\ deserialize(allocation_plan.allocations, data) = Decoded(data)
                  => allocation_plan.allocations = EmptyDict

(* C29, amended: deserialize merges, and the plan equals the decoded text  *)
(* exactly when the text names every flight the plan held before the call  *)
(* (so always when the plan was empty).                                    *)
DeserializeMerges ==
    (pc = "new" /\ allocation_plan.made) =>
        \A data \in PlanTexts :
            /\ DeserializeFrame(allocation_plan.allocations, data)
            /\ deserialize(allocation_plan.allocations, data) = Decoded(data)
                  <=> DOMAIN allocation_plan.allocations \subseteq DOMAIN data

(* a plan that a text was read into, which holds a flight that the text    *)
(* did not name and, for a flight that the text named, the entry of the    *)
(* text and nothing else                                                   *)
DeserializeMergesWitness ==
    /\ pc = "new"
    /\ allocation_plan.made
    /\ calls_left < MaxCalls
    /\ \E data \in PlanTexts :
          /\ DOMAIN data # {}
          /\ DOMAIN data \subseteq DOMAIN allocation_plan.allocations
          /\ DOMAIN allocation_plan.allocations \ DOMAIN data # {}
          /\ DOMAIN allocation_plan.allocations = DOMAIN FilledPlan
          /\ \A f \in DOMAIN data :
                /\ allocation_plan.allocations[f] = Decoded(data)[f]
                /\ allocation_plan.allocations[f] # FilledPlan[f]
          /\ \A f \in DOMAIN allocation_plan.allocations \ DOMAIN data :
                allocation_plan.allocations[f] = FilledPlan[f]

----------------------------------------------------------------------------
(* The detector and the transition rule.                                   *)

(* the conflict test of the detector of the run on a pair of flights *)
DetectorConflict(flight_a, flight_b) ==
    IF library
    THEN _has_temporal_conflict(flight_a, flight_b, _get_latest_service_end(flight_a),
                                _get_earliest_service_start(flight_b))
    ELSE overlap_detected(flight_a, flight_b)

(* the transition rule forbids one staff member to hold both services *)
RuleForbids(flight_a, service_a, flight_b, service_b) ==
    transition_conflict(flight_a, service_a, flight_b, service_b, overlap_tolerance_buffer)

(* C30: for every two flights A and B and every two services of them that  *)
(* are not Multi-Flight, if the end of the service of A plus the travel    *)
(* time exceeds the start of the service of B plus the buffer, then the    *)
(* conflict test of the detector holds of A and B.                         *)
DetectorOverApproximates ==
    pc = "constructed" =>
        \A i \in DOMAIN flights, j \in DOMAIN flights :
            \A service_a \in Range(NonMultiFlight(flights[i])),
               service_b \in Range(NonMultiFlight(flights[j])) :
                RuleForbids(flights[i], service_a, flights[j], service_b)
                    => DetectorConflict(flights[i], flights[j])

(* flights on two bays with a travel time above the buffer, a service pair *)
(* that the rule forbids and whose service of B starts before B arrives,   *)
(* and a pair of flights that the detector reports although the rule       *)
(* forbids none of their service pairs                                     *)
DetectorOverApproximatesWitness ==
    /\ pc = "constructed"
    /\ \E i \in DOMAIN flights, j \in DOMAIN flights :
          /\ i # j
          /\ travel_time_map(flights[i].bay_number, flights[j].bay_number) > overlap_tolerance_buffer
          /\ \E service_a \in Range(NonMultiFlight(flights[i])),
                service_b \in Range(NonMultiFlight(flights[j])) :
                /\ RuleForbids(flights[i], service_a, flights[j], service_b)
                /\ Window(flights[j], service_b)[1] < flights[j].arrival_time
    /\ \E i \in DOMAIN flights, j \in DOMAIN flights :
          /\ i # j
          /\ DetectorConflict(flights[i], flights[j])
          /\ \A service_a \in Range(NonMultiFlight(flights[i])),
                service_b \in Range(NonMultiFlight(flights[j])) :
                ~RuleForbids(flights[i], service_a, flights[j], service_b)

====
